---------------------------- MODULE Spec2Model ----------------------------
(***************************************************************************)
(* A model of the extraction-and-verification pipeline of                  *)
(* src/mau_scraper_v2.py: the post-LLM sanitizer (_sanitize_call), the     *)
(* chunker (_chunk_transcript) and the per-session checkpointing loop of   *)
(* parse_transcripts.                                                      *)
(*                                                                         *)
(* Python strings are modelled as sequences of one-character strings, so   *)
(* that strip/lower/upper/title, substring search and the regular          *)
(* expressions of the source are computed character by character.  The     *)
(* character set is ASCII: letters a-z and A-Z are the cased characters.   *)
(***************************************************************************)
EXTENDS Integers, Sequences, FiniteSets, TLC

VARIABLES
  \* ---- _sanitize_call applied to one record -------------------------
  call_in,     \* the record as the extractor returned it
  call,        \* the record (a dict of JSON values), mutated in place
  san_pc,      \* "input" | "once" | "twice" | "raised" | "raised_again" | "idle"
  call_once,   \* the record as returned by the first application
  \* ---- _chunk_transcript -------------------------------------------
  text,        \* the argument text
  max_chars,   \* the argument max_chars
  remaining,   \* local variable remaining
  chunks,      \* local variable chunks (the list being built)
  chunk_pc,    \* "call" | "loop" | "done" | "idle"
  \* ---- parse_transcripts: the environment and the disk --------------
  credential,  \* whether the provider's API key is set
  transcript,  \* per session: "absent" | "unavailable" | "text"
  timestamps,  \* per session: whether <eid>_timestamps.json exists
  nchunks,     \* per session: len(_chunk_transcript(text_clean))
  parsed,      \* per session: the checkpoint file PARSED_DIR/<eid>.json
  tmp,         \* per session: the temporary file <eid>.json.tmp
  \* ---- parse_transcripts: the process --------------------------------
  pc,          \* where the run is
  run,         \* the number of the current run of parse_transcripts
  ep,          \* the index of the session the for loop is at
  ci,          \* the index of the chunk the inner loop is at
  episode_calls,
  all_calls,
  instance_counter,
  sleeps,      \* the sleeps since the last backend call, in order
  outcome,     \* how the try block of the last chunk ended, until the end of its iteration
  \* ---- history, for stating the properties --------------------------
  called,      \* the <<session, chunk>> sent to the backend in this run
  checkpointed, \* the sessions whose checkpoint file existed when this run began
  written,     \* the sessions whose checkpoint this run wrote
  complete_list, \* per session: episode_calls as of the end of its chunk loop
  skipped,     \* <<session, chunk, how>> for the chunks whose latest attempt, in any run, failed
  \* ---- _verify_calls ----------------------------------------------
  verify_transcript, \* the argument transcript
  verify_in,   \* the argument calls as it was given
  verify_calls, \* the argument calls (a list of dicts), mutated in place
  verify_pc,   \* "call" | "done" | "raised" | "idle"
  \* ---- reparse_regions --------------------------------------------
  pf,          \* the session whose checkpoint file the loop is at
  pf_calls,    \* the local calls: the records loaded from it
  call_idx,    \* the position of the loop for call in calls
  changed,     \* the local changed
  reparse_run, \* how many runs of reparse_regions were started
  reparse_called, \* <<session, record>> for which this run called the backend
  repaired,    \* <<session, record>> whose try block reached changed = True in some run
  reparse_answer, \* what the last backend call of reparse_regions gave (a kind of ReparseOutcomes)
  \* ---- _resolve_timestamps ----------------------------------------
  resolve_ts,  \* the timestamps file: whether json.load reads it, and its segments
  resolve_in,  \* the argument calls as it was given
  resolve_calls, \* the argument calls, mutated in place
  resolve_pc,  \* "call" | "done" | "raised" | "idle"
  \* ---- fetch_transcripts -----------------------------------------
  fetch_pc,    \* where fetch_transcripts is
  fetch_ep,    \* the session its loop is at
  fetch_run,   \* how many runs of it were started
  audio_url,   \* per session: whether the episode has an audio URL
  audio,       \* per session: the .mp3 file ([exists, complete])
  audio_tmp,   \* per session: the .mp3.tmp file
  tmp_txt,     \* per session: the .txt.tmp file ("absent" | "open" | "text")
  tmp_ts       \* per session: the _timestamps.json.tmp file, likewise

sanVars   == <<call_in, call, san_pc, call_once>>
chunkVars == <<text, max_chars, remaining, chunks, chunk_pc>>
diskVars  == <<credential, transcript, timestamps, nchunks, parsed, tmp>>
ghostVars == <<called, checkpointed, written, complete_list, skipped>>
parseVars == <<diskVars, pc, run, ep, ci, episode_calls, all_calls, instance_counter,
               sleeps, outcome, ghostVars>>
verifyVars == <<verify_transcript, verify_in, verify_calls, verify_pc>>
reparseVars == <<pf, pf_calls, call_idx, changed, reparse_run, reparse_called, repaired, reparse_answer>>
parseMemory == <<ep, ci, episode_calls, all_calls, instance_counter, sleeps, outcome>>
resolveVars == <<resolve_ts, resolve_in, resolve_calls, resolve_pc>>
fetchVars == <<fetch_pc, fetch_ep, fetch_run, audio_url, audio, audio_tmp, tmp_txt, tmp_ts>>
vars      == <<sanVars, chunkVars, parseVars, verifyVars, reparseVars, resolveVars, fetchVars>>

-----------------------------------------------------------------------------
(***************************************************************************)
(* Python str methods                                                      *)
(***************************************************************************)
UpperLetters ==
  <<"A","B","C","D","E","F","G","H","I","J","K","L","M",
    "N","O","P","Q","R","S","T","U","V","W","X","Y","Z">>
LowerLetters ==
  <<"a","b","c","d","e","f","g","h","i","j","k","l","m",
    "n","o","p","q","r","s","t","u","v","w","x","y","z">>
Digits == {"0","1","2","3","4","5","6","7","8","9"}
DigitSeq == <<"0","1","2","3","4","5","6","7","8","9">>
\* the characters str.strip() and \s treat as whitespace
Whitespace == {" ", "\t", "\n", "\r"}

IsUpper(c) == \E i \in 1..26 : UpperLetters[i] = c
IsLower(c) == \E i \in 1..26 : LowerLetters[i] = c
IsCased(c) == IsUpper(c) \/ IsLower(c)
LowerChar(c) ==
  IF IsUpper(c) THEN LowerLetters[CHOOSE i \in 1..26 : UpperLetters[i] = c] ELSE c
UpperChar(c) ==
  IF IsLower(c) THEN UpperLetters[CHOOSE i \in 1..26 : LowerLetters[i] = c] ELSE c

\* str.lower(), str.upper()
lower(s) == [i \in 1..Len(s) |-> LowerChar(s[i])]
upper(s) == [i \in 1..Len(s) |-> UpperChar(s[i])]

\* str.title(): a cased character is upper-cased when the character before
\* it is not cased (or there is none), lower-cased otherwise
title(s) ==
  [i \in 1..Len(s) |->
     IF i > 1 /\ IsCased(s[i-1]) THEN LowerChar(s[i]) ELSE UpperChar(s[i])]

\* s[a:b] with 0-based Python offsets, 0 <= a, clipped to len(s)
Slice(s, a, b) ==
  LET e == IF b > Len(s) THEN Len(s) ELSE b
  IN  IF a >= e THEN <<>> ELSE SubSeq(s, a + 1, e)

\* str.strip()
strip(s) ==
  LET keep == {i \in 1..Len(s) : s[i] \notin Whitespace}
  IN  IF keep = {} THEN <<>>
      ELSE LET a == CHOOSE i \in keep : \A j \in keep : i <= j
               b == CHOOSE i \in keep : \A j \in keep : j <= i
           IN  SubSeq(s, a, b)

\* s.startswith(p, i) with the 0-based offset i
StartsAt(s, p, i) ==
  /\ i + Len(p) <= Len(s)
  /\ \A k \in 1..Len(p) : s[i + k] = p[k]

\* s.find(p): the least 0-based offset of p in s, -1 when there is none
find(s, p) ==
  LET hits == {i \in 0..Len(s) : StartsAt(s, p, i)}
  IN  IF hits = {} THEN -1 ELSE CHOOSE i \in hits : \A j \in hits : i <= j

\* p in s
Contains(s, p) == find(s, p) # -1

AllDigits(s) == \A i \in 1..Len(s) : s[i] \in Digits

\* int(s) for a string of decimal digits
DigitVal(c) == (CHOOSE i \in 1..10 : DigitSeq[i] = c) - 1
RECURSIVE int(_)
int(s) == IF s = <<>> THEN 0 ELSE 10 * int(SubSeq(s, 1, Len(s) - 1)) + DigitVal(s[Len(s)])

\* str(n) for n >= 0
RECURSIVE str(_)
str(n) == IF n < 10 THEN <<DigitSeq[n + 1]>> ELSE str(n \div 10) \o <<DigitSeq[(n % 10) + 1]>>

\* f"{n:02d}" for n >= 0
Fmt02d(n) == IF n < 10 THEN <<"0">> \o str(n) ELSE str(n)

-----------------------------------------------------------------------------
(***************************************************************************)
(* The fixed tables of the sanitizer                                       *)
(***************************************************************************)

VALID_TONES ==
  {
    <<"s","c","a","r","e","d">>, <<"c","a","l","m">>, <<"n","o","s","t","a","l","g","i","c">>,
    <<"h","u","m","o","r","o","u","s">>, <<"m","a","t","t","e","r","-","o","f","-","f","a","c","t">>,
    <<"e","m","o","t","i","o","n","a","l">>
  }

VALID_ENTITY_LABELS ==
  {
    <<"B","i","g","f","o","o","t","/","S","a","s","q","u","a","t","c","h">>, <<"D","o","g","m","a","n">>,
    <<"M","o","t","h","m","a","n">>, <<"S","k","i","n","w","a","l","k","e","r">>,
    <<"W","e","n","d","i","g","o">>, <<"T","h","u","n","d","e","r","b","i","r","d">>,
    <<"C","r","a","w","l","e","r","/","R","a","k","e">>, <<"C","h","u","p","a","c","a","b","r","a">>,
    <<"M","u","t","a","n","t"," ","C","a","n","i","n","e","/","T","u","r","n","e","r"," ","B","e","a","s","t">>,
    <<"L","a","k","e"," ","M","o","n","s","t","e","r">>,
    <<"B","l","a","c","k","-","E","y","e","d"," ","K","i","d","s"," ","(","B","E","K",")">>,
    <<"N","o","t"," ","D","e","e","r">>, <<"G","o","a","t","m","a","n">>,
    <<"J","e","r","s","e","y"," ","D","e","v","i","l">>,
    <<"U","n","k","n","o","w","n"," ","C","r","y","p","t","i","d">>,
    <<"G","h","o","s","t","/","A","p","p","a","r","i","t","i","o","n">>,
    <<"S","h","a","d","o","w"," ","P","e","r","s","o","n">>, <<"H","a","t"," ","M","a","n">>,
    <<"O","l","d"," ","H","a","g">>, <<"P","o","l","t","e","r","g","e","i","s","t">>,
    <<"D","e","m","o","n","i","c"," ","E","n","t","i","t","y">>,
    <<"A","n","g","e","l","/","P","o","s","i","t","i","v","e"," ","S","p","i","r","i","t">>,
    <<"D","o","p","p","e","l","g","a","n","g","e","r">>,
    <<"R","e","s","i","d","u","a","l"," ","H","a","u","n","t","i","n","g">>,
    <<"I","n","t","e","l","l","i","g","e","n","t"," ","H","a","u","n","t","i","n","g">>,
    <<"P","o","r","t","a","l","/","V","o","r","t","e","x">>,
    <<"A","f","t","e","r","l","i","f","e"," ","C","o","m","m","u","n","i","c","a","t","i","o","n"," ","(","A","D","C",")">>,
    <<"S","l","e","e","p"," ","P","a","r","a","l","y","s","i","s"," ","E","n","t","i","t","y">>,
    <<"U","F","O","/","U","A","P">>, <<"B","l","a","c","k"," ","T","r","i","a","n","g","l","e">>,
    <<"O","r","b","/","L","i","g","h","t">>, <<"F","i","r","e","b","a","l","l">>,
    <<"P","h","a","n","t","o","m"," ","L","i","g","h","t","s">>, <<"A","b","d","u","c","t","i","o","n">>,
    <<"A","l","i","e","n"," ","E","n","t","i","t","y">>,
    <<"S","a","t","e","l","l","i","t","e","/","R","o","c","k","e","t"," ","(","E","x","p","l","a","i","n","e","d",")">>,
    <<"M","i","s","s","i","n","g"," ","T","i","m","e">>,
    <<"G","l","i","t","c","h"," ","i","n"," ","t","h","e"," ","M","a","t","r","i","x">>,
    <<"T","i","m","e"," ","S","l","i","p">>,
    <<"P","r","e","m","o","n","i","t","i","o","n","/","P","r","e","c","o","g","n","i","t","i","o","n">>,
    <<"T","e","l","e","p","a","t","h","y">>,
    <<"P","s","y","c","h","i","c"," ","E","x","p","e","r","i","e","n","c","e">>,
    <<"A","s","t","r","a","l"," ","P","r","o","j","e","c","t","i","o","n">>,
    <<"A","u","r","a","/","E","n","e","r","g","y">>, <<"S","y","n","c","h","r","o","n","i","c","i","t","y">>,
    <<"M","e","n"," ","i","n"," ","B","l","a","c","k">>,
    <<"P","h","a","n","t","o","m"," ","P","e","r","s","o","n">>,
    <<"V","a","n","i","s","h","i","n","g"," ","O","b","j","e","c","t">>,
    <<"D","i","m","e","/","C","o","i","n"," ","f","r","o","m"," ","t","h","e"," ","D","e","a","d">>,
    <<"P","h","a","n","t","o","m"," ","S","o","u","n","d">>,
    <<"P","h","a","n","t","o","m"," ","S","m","e","l","l">>,
    <<"U","n","e","x","p","l","a","i","n","e","d"," ","A","n","i","m","a","l"," ","B","e","h","a","v","i","o","r">>,
    <<"E","l","e","c","t","r","o","n","i","c"," ","M","a","l","f","u","n","c","t","i","o","n">>,
    <<"T","e","m","p","e","r","a","t","u","r","e"," ","A","n","o","m","a","l","y">>,
    <<"C","o","i","n","c","i","d","e","n","c","e">>,
    <<"U","n","i","d","e","n","t","i","f","i","e","d"," ","A","n","i","m","a","l">>,
    <<"E","x","p","l","a","i","n","e","d"," ","(","m","u","n","d","a","n","e",")">>,
    <<"D","r","e","a","m","/","V","i","s","i","o","n">>, <<"C","u","r","s","e","/","H","e","x">>,
    <<"F","a","i","r","y","/","F","a","e">>,
    <<"H","u","m","a","n","o","i","d"," ","(","u","n","c","l","a","s","s","i","f","i","e","d",")">>,
    <<"O","t","h","e","r">>
  }

NULL_STRINGS ==
  {
    <<"n","a">>, <<"n","/","a">>, <<"n","o","n","e">>, <<"n","u","l","l">>, <<"u","n","k","n","o","w","n">>,
    <<"u","n","c","l","e","a","r">>, <<"u","n","s","p","e","c","i","f","i","e","d">>,
    <<"p","a","r","t","s"," ","u","n","k","n","o","w","n">>, <<"a","n","o","n","y","m","o","u","s">>, <<>>,
    <<"n","o","t"," ","m","e","n","t","i","o","n","e","d">>,
    <<"n","o","t"," ","s","p","e","c","i","f","i","e","d">>
  }

STATE_ABBREV_TO_FULL ==
  <<
    <<<<"A","L">>, <<"A","l","a","b","a","m","a">>>>, <<<<"A","K">>, <<"A","l","a","s","k","a">>>>,
    <<<<"A","Z">>, <<"A","r","i","z","o","n","a">>>>, <<<<"A","R">>, <<"A","r","k","a","n","s","a","s">>>>,
    <<<<"C","A">>, <<"C","a","l","i","f","o","r","n","i","a">>>>,
    <<<<"C","O">>, <<"C","o","l","o","r","a","d","o">>>>,
    <<<<"C","T">>, <<"C","o","n","n","e","c","t","i","c","u","t">>>>,
    <<<<"D","E">>, <<"D","e","l","a","w","a","r","e">>>>, <<<<"F","L">>, <<"F","l","o","r","i","d","a">>>>,
    <<<<"G","A">>, <<"G","e","o","r","g","i","a">>>>, <<<<"H","I">>, <<"H","a","w","a","i","i">>>>,
    <<<<"I","D">>, <<"I","d","a","h","o">>>>, <<<<"I","L">>, <<"I","l","l","i","n","o","i","s">>>>,
    <<<<"I","N">>, <<"I","n","d","i","a","n","a">>>>, <<<<"I","A">>, <<"I","o","w","a">>>>,
    <<<<"K","S">>, <<"K","a","n","s","a","s">>>>, <<<<"K","Y">>, <<"K","e","n","t","u","c","k","y">>>>,
    <<<<"L","A">>, <<"L","o","u","i","s","i","a","n","a">>>>, <<<<"M","E">>, <<"M","a","i","n","e">>>>,
    <<<<"M","D">>, <<"M","a","r","y","l","a","n","d">>>>,
    <<<<"M","A">>, <<"M","a","s","s","a","c","h","u","s","e","t","t","s">>>>,
    <<<<"M","I">>, <<"M","i","c","h","i","g","a","n">>>>,
    <<<<"M","N">>, <<"M","i","n","n","e","s","o","t","a">>>>,
    <<<<"M","S">>, <<"M","i","s","s","i","s","s","i","p","p","i">>>>,
    <<<<"M","O">>, <<"M","i","s","s","o","u","r","i">>>>, <<<<"M","T">>, <<"M","o","n","t","a","n","a">>>>,
    <<<<"N","E">>, <<"N","e","b","r","a","s","k","a">>>>, <<<<"N","V">>, <<"N","e","v","a","d","a">>>>,
    <<<<"N","H">>, <<"N","e","w"," ","H","a","m","p","s","h","i","r","e">>>>,
    <<<<"N","J">>, <<"N","e","w"," ","J","e","r","s","e","y">>>>,
    <<<<"N","M">>, <<"N","e","w"," ","M","e","x","i","c","o">>>>,
    <<<<"N","Y">>, <<"N","e","w"," ","Y","o","r","k">>>>,
    <<<<"N","C">>, <<"N","o","r","t","h"," ","C","a","r","o","l","i","n","a">>>>,
    <<<<"N","D">>, <<"N","o","r","t","h"," ","D","a","k","o","t","a">>>>,
    <<<<"O","H">>, <<"O","h","i","o">>>>, <<<<"O","K">>, <<"O","k","l","a","h","o","m","a">>>>,
    <<<<"O","R">>, <<"O","r","e","g","o","n">>>>,
    <<<<"P","A">>, <<"P","e","n","n","s","y","l","v","a","n","i","a">>>>,
    <<<<"R","I">>, <<"R","h","o","d","e"," ","I","s","l","a","n","d">>>>,
    <<<<"S","C">>, <<"S","o","u","t","h"," ","C","a","r","o","l","i","n","a">>>>,
    <<<<"S","D">>, <<"S","o","u","t","h"," ","D","a","k","o","t","a">>>>,
    <<<<"T","N">>, <<"T","e","n","n","e","s","s","e","e">>>>, <<<<"T","X">>, <<"T","e","x","a","s">>>>,
    <<<<"U","T">>, <<"U","t","a","h">>>>, <<<<"V","T">>, <<"V","e","r","m","o","n","t">>>>,
    <<<<"V","A">>, <<"V","i","r","g","i","n","i","a">>>>,
    <<<<"W","A">>, <<"W","a","s","h","i","n","g","t","o","n">>>>,
    <<<<"W","V">>, <<"W","e","s","t"," ","V","i","r","g","i","n","i","a">>>>,
    <<<<"W","I">>, <<"W","i","s","c","o","n","s","i","n">>>>,
    <<<<"W","Y">>, <<"W","y","o","m","i","n","g">>>>,
    <<<<"D","C">>, <<"D","i","s","t","r","i","c","t"," ","o","f"," ","C","o","l","u","m","b","i","a">>>>
  >>

STATE_ALIASES ==
  <<
    <<<<"c","a","l","i">>, <<"C","a","l","i","f","o","r","n","i","a">>>>,
    <<<<"s","o","c","a","l">>, <<"C","a","l","i","f","o","r","n","i","a">>>>,
    <<<<"n","o","r","c","a","l">>, <<"C","a","l","i","f","o","r","n","i","a">>>>,
    <<<<"m","a","s","s">>, <<"M","a","s","s","a","c","h","u","s","e","t","t","s">>>>,
    <<<<"m","i","c","h">>, <<"M","i","c","h","i","g","a","n">>>>,
    <<<<"m","i","n","n">>, <<"M","i","n","n","e","s","o","t","a">>>>,
    <<<<"p","e","n","n">>, <<"P","e","n","n","s","y","l","v","a","n","i","a">>>>,
    <<<<"t","e","n","n">>, <<"T","e","n","n","e","s","s","e","e">>>>,
    <<<<"w","i","s","c">>, <<"W","i","s","c","o","n","s","i","n">>>>,
    <<<<"c","o","n","n">>, <<"C","o","n","n","e","c","t","i","c","u","t">>>>,
    <<<<"w","a","s","h">>, <<"W","a","s","h","i","n","g","t","o","n">>>>,
    <<<<"o","r","e">>, <<"O","r","e","g","o","n">>>>,
    <<<<"o","k","l","a">>, <<"O","k","l","a","h","o","m","a">>>>,
    <<<<"m","o","n","t">>, <<"M","o","n","t","a","n","a">>>>,
    <<<<"m","i","s","s">>, <<"M","i","s","s","i","s","s","i","p","p","i">>>>,
    <<<<"a","l","a">>, <<"A","l","a","b","a","m","a">>>>,
    <<<<"a","r","i","z">>, <<"A","r","i","z","o","n","a">>>>,
    <<<<"a","r","k">>, <<"A","r","k","a","n","s","a","s">>>>,
    <<<<"c","o","l","o">>, <<"C","o","l","o","r","a","d","o">>>>,
    <<<<"d","e","l","a">>, <<"D","e","l","a","w","a","r","e">>>>,
    <<<<"f","l","a">>, <<"F","l","o","r","i","d","a">>>>,
    <<<<"i","n","d">>, <<"I","n","d","i","a","n","a">>>>,
    <<<<"n","e","b">>, <<"N","e","b","r","a","s","k","a">>>>, <<<<"n","e","v">>, <<"N","e","v","a","d","a">>>>
  >>

TIME_WORD_MAP ==
  <<
    <<<<"m","i","d","n","i","g","h","t">>, <<"0","0",":","0","0">>>>,
    <<<<"m","i","d","d","l","e"," ","o","f"," ","t","h","e"," ","n","i","g","h","t">>, <<"0","3",":","0","0">>>>,
    <<<<"p","r","e","-","d","a","w","n">>, <<"0","4",":","0","0">>>>,
    <<<<"p","r","e","d","a","w","n">>, <<"0","4",":","0","0">>>>,
    <<<<"e","a","r","l","y"," ","m","o","r","n","i","n","g">>, <<"0","5",":","0","0">>>>,
    <<<<"d","a","w","n">>, <<"0","6",":","0","0">>>>,
    <<<<"s","u","n","r","i","s","e">>, <<"0","6",":","0","0">>>>,
    <<<<"m","o","r","n","i","n","g">>, <<"0","8",":","0","0">>>>,
    <<<<"m","i","d","-","m","o","r","n","i","n","g">>, <<"1","0",":","0","0">>>>,
    <<<<"n","o","o","n">>, <<"1","2",":","0","0">>>>,
    <<<<"m","i","d","d","a","y">>, <<"1","2",":","0","0">>>>,
    <<<<"a","f","t","e","r","n","o","o","n">>, <<"1","4",":","0","0">>>>,
    <<<<"l","a","t","e"," ","a","f","t","e","r","n","o","o","n">>, <<"1","6",":","0","0">>>>,
    <<<<"d","u","s","k">>, <<"1","9",":","0","0">>>>,
    <<<<"s","u","n","s","e","t">>, <<"1","9",":","0","0">>>>,
    <<<<"t","w","i","l","i","g","h","t">>, <<"1","9",":","0","0">>>>,
    <<<<"e","v","e","n","i","n","g">>, <<"2","0",":","0","0">>>>,
    <<<<"n","i","g","h","t">>, <<"2","1",":","0","0">>>>,
    <<<<"n","i","g","h","t","t","i","m","e">>, <<"2","1",":","0","0">>>>,
    <<<<"l","a","t","e"," ","n","i","g","h","t">>, <<"2","3",":","0","0">>>>,
    <<<<"l","a","t","e"," ","a","t"," ","n","i","g","h","t">>, <<"2","3",":","0","0">>>>
  >>

tone_map ==
  <<
    <<<<"f","r","i","g","h","t","e","n","e","d">>, <<"s","c","a","r","e","d">>>>,
    <<<<"t","e","r","r","i","f","i","e","d">>, <<"s","c","a","r","e","d">>>>,
    <<<<"a","f","r","a","i","d">>, <<"s","c","a","r","e","d">>>>,
    <<<<"a","n","x","i","o","u","s">>, <<"s","c","a","r","e","d">>>>,
    <<<<"n","e","r","v","o","u","s">>, <<"s","c","a","r","e","d">>>>,
    <<<<"u","n","e","a","s","y">>, <<"s","c","a","r","e","d">>>>,
    <<<<"r","e","l","a","x","e","d">>, <<"c","a","l","m">>>>,
    <<<<"c","o","m","p","o","s","e","d">>, <<"c","a","l","m">>>>,
    <<<<"n","e","u","t","r","a","l">>, <<"c","a","l","m">>>>,
    <<<<"s","e","n","t","i","m","e","n","t","a","l">>, <<"n","o","s","t","a","l","g","i","c">>>>,
    <<<<"w","i","s","t","f","u","l">>, <<"n","o","s","t","a","l","g","i","c">>>>,
    <<<<"r","e","f","l","e","c","t","i","v","e">>, <<"n","o","s","t","a","l","g","i","c">>>>,
    <<<<"f","u","n","n","y">>, <<"h","u","m","o","r","o","u","s">>>>,
    <<<<"j","o","k","i","n","g">>, <<"h","u","m","o","r","o","u","s">>>>,
    <<<<"l","i","g","h","t","h","e","a","r","t","e","d">>, <<"h","u","m","o","r","o","u","s">>>>,
    <<<<"f","a","c","t","u","a","l">>, <<"m","a","t","t","e","r","-","o","f","-","f","a","c","t">>>>,
    <<<<"m","a","t","t","e","r"," ","o","f"," ","f","a","c","t">>, <<"m","a","t","t","e","r","-","o","f","-","f","a","c","t">>>>,
    <<<<"d","e","a","d","p","a","n">>, <<"m","a","t","t","e","r","-","o","f","-","f","a","c","t">>>>,
    <<<<"d","r","y">>, <<"m","a","t","t","e","r","-","o","f","-","f","a","c","t">>>>,
    <<<<"u","p","s","e","t">>, <<"e","m","o","t","i","o","n","a","l">>>>,
    <<<<"t","e","a","r","f","u","l">>, <<"e","m","o","t","i","o","n","a","l">>>>,
    <<<<"c","r","y","i","n","g">>, <<"e","m","o","t","i","o","n","a","l">>>>,
    <<<<"e","x","c","i","t","e","d">>, <<"e","m","o","t","i","o","n","a","l">>>>,
    <<<<"p","a","s","s","i","o","n","a","t","e">>, <<"e","m","o","t","i","o","n","a","l">>>>,
    <<<<"m","o","v","e","d">>, <<"e","m","o","t","i","o","n","a","l">>>>
  >>

US_REGIONS ==
  {
    <<"C","o","n","n","e","c","t","i","c","u","t">>, <<"M","a","i","n","e">>,
    <<"M","a","s","s","a","c","h","u","s","e","t","t","s">>,
    <<"N","e","w"," ","H","a","m","p","s","h","i","r","e">>,
    <<"R","h","o","d","e"," ","I","s","l","a","n","d">>, <<"V","e","r","m","o","n","t">>,
    <<"N","e","w"," ","J","e","r","s","e","y">>, <<"N","e","w"," ","Y","o","r","k">>,
    <<"P","e","n","n","s","y","l","v","a","n","i","a">>, <<"A","l","a","b","a","m","a">>,
    <<"A","r","k","a","n","s","a","s">>, <<"D","e","l","a","w","a","r","e">>, <<"F","l","o","r","i","d","a">>,
    <<"G","e","o","r","g","i","a">>, <<"K","e","n","t","u","c","k","y">>,
    <<"L","o","u","i","s","i","a","n","a">>, <<"M","a","r","y","l","a","n","d">>,
    <<"M","i","s","s","i","s","s","i","p","p","i">>,
    <<"N","o","r","t","h"," ","C","a","r","o","l","i","n","a">>, <<"O","k","l","a","h","o","m","a">>,
    <<"S","o","u","t","h"," ","C","a","r","o","l","i","n","a">>, <<"T","e","n","n","e","s","s","e","e">>,
    <<"T","e","x","a","s">>, <<"V","i","r","g","i","n","i","a">>,
    <<"W","e","s","t"," ","V","i","r","g","i","n","i","a">>, <<"I","l","l","i","n","o","i","s">>,
    <<"I","n","d","i","a","n","a">>, <<"I","o","w","a">>, <<"K","a","n","s","a","s">>,
    <<"M","i","c","h","i","g","a","n">>, <<"M","i","n","n","e","s","o","t","a">>,
    <<"M","i","s","s","o","u","r","i">>, <<"N","e","b","r","a","s","k","a">>,
    <<"N","o","r","t","h"," ","D","a","k","o","t","a">>, <<"O","h","i","o">>,
    <<"S","o","u","t","h"," ","D","a","k","o","t","a">>, <<"W","i","s","c","o","n","s","i","n">>,
    <<"A","l","a","s","k","a">>, <<"A","r","i","z","o","n","a">>, <<"C","a","l","i","f","o","r","n","i","a">>,
    <<"C","o","l","o","r","a","d","o">>, <<"H","a","w","a","i","i">>, <<"I","d","a","h","o">>,
    <<"M","o","n","t","a","n","a">>, <<"N","e","v","a","d","a">>, <<"N","e","w"," ","M","e","x","i","c","o">>,
    <<"O","r","e","g","o","n">>, <<"U","t","a","h">>, <<"W","a","s","h","i","n","g","t","o","n">>,
    <<"W","y","o","m","i","n","g">>
  }

-----------------------------------------------------------------------------
(***************************************************************************)
(* JSON values.  A field of a record holds a decoded JSON value: null, a   *)
(* boolean, a number, a string, a list or an object; "missing" is a key    *)
(* the dict does not hold.  Lists and objects carry only their length n,   *)
(* which decides their truth value; none of them is hashable.              *)
(***************************************************************************)
Null       == [t |-> "null",    s |-> <<>>, n |-> 0, b |-> FALSE]
Missing    == [t |-> "missing", s |-> <<>>, n |-> 0, b |-> FALSE]
Str(x)     == [t |-> "str",     s |-> x,    n |-> 0, b |-> FALSE]
Bool(x)    == [t |-> "bool",    s |-> <<>>, n |-> 0, b |-> x]
Num(x)     == [t |-> "num",     s |-> <<>>, n |-> x, b |-> FALSE]
List(x)    == [t |-> "list",    s |-> <<>>, n |-> x, b |-> FALSE]
Obj(x)     == [t |-> "obj",     s |-> <<>>, n |-> x, b |-> FALSE]

IsStr(v)      == v.t = "str"
IsNone(v)     == v.t = "null"
Unhashable(v) == v.t \in {"list", "obj"}
\* bool(v)
Truthy(v) ==
  CASE v.t = "str"  -> v.s # <<>>
    [] v.t = "bool" -> v.b
    [] v.t \in {"num", "list", "obj"} -> v.n # 0
    [] OTHER -> FALSE

\* call.get(key)
get(c, key) == IF c[key].t = "missing" THEN Null ELSE c[key]

\* the keys of a record that _sanitize_call reads or writes
Fields ==
  {"state_or_region", "city", "country", "call_type", "call_type_secondary",
   "date_of_event", "time_of_event", "setting", "derek_commentary",
   "caller_intro_snippet", "caller_name", "involves_other_witnesses",
   "caller_emotional_tone"}

\* lookups in a dict modelled as a sequence of <<key, value>> in insertion order
HasKey(d, k) == \E i \in 1..Len(d) : d[i][1] = k
Lookup(d, k) == d[CHOOSE i \in 1..Len(d) : d[i][1] = k][2]

\* the outcome of a block of _sanitize_call: the (mutated) dict, and whether
\* the block ran to its end or raised
Ret(c)   == [ok |-> TRUE,  call |-> c]
Raise(c) == [ok |-> FALSE, call |-> c]

-----------------------------------------------------------------------------
(***************************************************************************)
(* _sanitize_call, block by block                                          *)
(***************************************************************************)
NullKeys ==
  {"state_or_region", "city", "country", "call_type_secondary",
   "date_of_event", "time_of_event", "setting", "derek_commentary",
   "caller_intro_snippet"}

NullLike(v) == IsStr(v) /\ lower(strip(v.s)) \in NULL_STRINGS

\* null normalization: sentinel strings become None
SanNulls(c) ==
  [k \in DOMAIN c |-> IF k \in NullKeys /\ NullLike(get(c, k)) THEN Null ELSE c[k]]

\* caller_name: sentinel strings become None
SanName(c) ==
  IF NullLike(get(c, "caller_name")) THEN [c EXCEPT !["caller_name"] = Null] ELSE c

\* state normalization: abbreviations and aliases to the full name
NormState(v) ==
  LET s  == strip(v.s)
      up == upper(s)
      lo == lower(s)
  IN  IF HasKey(STATE_ABBREV_TO_FULL, up) THEN Str(Lookup(STATE_ABBREV_TO_FULL, up))
      ELSE IF HasKey(STATE_ALIASES, lo) THEN Str(Lookup(STATE_ALIASES, lo))
      ELSE IF lo \in NULL_STRINGS THEN Null
      ELSE Str(IF s = lower(s) \/ s = upper(s) THEN title(s) ELSE s)

SanState(c) ==
  LET state == get(c, "state_or_region")
  IN  IF IsStr(state) THEN [c EXCEPT !["state_or_region"] = NormState(state)] ELSE c

\* country: "USA" when state_or_region is a key of US_REGIONS; the
\* membership test hashes the value and raises TypeError on a list or object
SanCountry(c) ==
  LET state == get(c, "state_or_region")
  IN  IF ~Truthy(state) THEN Ret(c)
      ELSE IF Unhashable(state) THEN Raise(c)
      ELSE IF IsStr(state) /\ state.s \in US_REGIONS
           THEN Ret([c EXCEPT !["country"] = Str(<<"U","S","A">>)])
      ELSE Ret(c)

Other == <<"O","t","h","e","r">>

\* the label whose lower-cased form equals the lower-cased x (labels differ
\* pairwise in lower case, so the iteration order of the set does not matter)
CaseInsensitiveLabels(x) == {label \in VALID_ENTITY_LABELS : lower(label) = lower(x)}

\* SanCallType without the fallback: a string that matches no label is kept
SanCallType_NoFallback(c) ==
  LET v  == get(c, "call_type")
      ct == IF Truthy(v) THEN v ELSE Str(<<>>)
  IN  IF Unhashable(ct) THEN Raise(c)
      ELSE IF IsStr(ct) /\ ct.s \in VALID_ENTITY_LABELS THEN Ret(c)
      ELSE IF ~Truthy(ct) THEN Ret([c EXCEPT !["call_type"] = Str(Other)])
      ELSE IF ~IsStr(ct) THEN Raise(c)
      ELSE IF CaseInsensitiveLabels(ct.s) # {}
           THEN Ret([c EXCEPT !["call_type"] =
                       Str(CHOOSE label \in CaseInsensitiveLabels(ct.s) : TRUE)])
      ELSE Ret(c)

\* call_type: a member of the taxonomy, its canonical casing, or "Other";
\* x.lower() raises AttributeError on a value that is not a string
SanCallType(c) ==
  LET v  == get(c, "call_type")
      ct == IF Truthy(v) THEN v ELSE Str(<<>>)
  IN  IF Unhashable(ct) THEN Raise(c)
      ELSE IF IsStr(ct) /\ ct.s \in VALID_ENTITY_LABELS THEN Ret(c)
      ELSE IF ~Truthy(ct) THEN Ret([c EXCEPT !["call_type"] = Str(Other)])
      ELSE IF ~IsStr(ct) THEN Raise(c)
      ELSE IF CaseInsensitiveLabels(ct.s) # {}
           THEN Ret([c EXCEPT !["call_type"] =
                       Str(CHOOSE label \in CaseInsensitiveLabels(ct.s) : TRUE)])
      ELSE Ret([c EXCEPT !["call_type"] = Str(Other)])

\* call_type_secondary: the same rule, with None as the fallback
SanCallType2(c) ==
  LET ct2 == get(c, "call_type_secondary")
  IN  IF IsNone(ct2) THEN Ret(c)
      ELSE IF Unhashable(ct2) THEN Raise(c)
      ELSE IF IsStr(ct2) /\ ct2.s \in VALID_ENTITY_LABELS THEN Ret(c)
      ELSE IF ~IsStr(ct2) THEN Raise(c)
      ELSE IF CaseInsensitiveLabels(ct2.s) # {}
           THEN Ret([c EXCEPT !["call_type_secondary"] =
                       Str(CHOOSE label \in CaseInsensitiveLabels(ct2.s) : TRUE)])
      ELSE Ret([c EXCEPT !["call_type_secondary"] = Null])

\* re.match(r"^\d{4}-\d{2}-\d{2}$", d)
IsFullDate(d) ==
  /\ Len(d) = 10
  /\ AllDigits(SubSeq(d, 1, 4)) /\ d[5] = "-"
  /\ AllDigits(SubSeq(d, 6, 7)) /\ d[8] = "-"
  /\ AllDigits(SubSeq(d, 9, 10))
\* re.match(r"^\d{4}$", d)
IsYear(d) == Len(d) = 4 /\ AllDigits(d)
\* re.match(r"^\d{4}-\d{2}$", d)
IsYearMonth(d) ==
  Len(d) = 7 /\ AllDigits(SubSeq(d, 1, 4)) /\ d[5] = "-" /\ AllDigits(SubSeq(d, 6, 7))

\* re.search(r"(\d{k})s", d): the 0-based offsets where k digits and an "s"
\* start; re.search takes the leftmost
DecadeHits(d, k) ==
  {i \in 0..Len(d) : i + k + 1 <= Len(d) /\ AllDigits(SubSeq(d, i + 1, i + k))
                                        /\ d[i + k + 1] = "s"}
DecadeGroup(d, k) ==
  LET i == CHOOSE i \in DecadeHits(d, k) : \A j \in DecadeHits(d, k) : i <= j
  IN  SubSeq(d, i + 1, i + k)

Jan01 == <<"-","0","1","-","0","1">>
CenturyCutoff == 30

\* date_of_event of a string value; the branch that finds a full date leaves
\* the field as it is (the stripped string is not written back)
NormDate(v) ==
  LET date_val == strip(v.s)
  IN  IF IsFullDate(date_val) THEN v
      ELSE IF IsYear(date_val) THEN Str(date_val \o Jan01)
      ELSE IF IsYearMonth(date_val) THEN Str(date_val \o <<"-","0","1">>)
      ELSE IF DecadeHits(date_val, 4) # {} THEN Str(DecadeGroup(date_val, 4) \o Jan01)
      ELSE IF DecadeHits(date_val, 2) # {}
           THEN LET decade_str == DecadeGroup(date_val, 2)
                    century == IF int(decade_str) >= CenturyCutoff
                               THEN <<"1","9">> ELSE <<"2","0">>
                IN  Str(century \o decade_str \o Jan01)
      ELSE Null

SanDate(c) ==
  LET date_val == get(c, "date_of_event")
  IN  IF IsStr(date_val) THEN [c EXCEPT !["date_of_event"] = NormDate(date_val)] ELSE c

\* re.match(r"^\d{1,2}:\d{2}$", tv)
IsClock(tv) ==
  \E k \in {1, 2} :
     /\ Len(tv) = k + 3
     /\ AllDigits(SubSeq(tv, 1, k)) /\ tv[k + 1] = ":"
     /\ AllDigits(SubSeq(tv, k + 2, k + 3))

\* the first offset at or after i that holds no whitespace (\s* is greedy, and
\* what follows it in the pattern never starts with whitespace)
RECURSIVE SkipWs(_, _)
SkipWs(s, i) == IF i < Len(s) /\ s[i + 1] \in Whitespace THEN SkipWs(s, i + 1) ELSE i

Around == <<"a","r","o","u","n","d">>
\* the alternation (am|pm|a\.m\.|p\.m\.), in its order
AmPmSuffixes == << <<"a","m">>, <<"p","m">>, <<"a",".","m",".">>, <<"p",".","m",".">> >>

\* r"(?:around\s+)?(\d{1,2})(?::(\d{2}))?\s*(am|pm|a\.m\.|p\.m\.)" tried at
\* the start of tv.  A way to match is <<a, k, m>>: a = 1 takes the optional
\* "around\s+", k is the number of hour digits, m = 1 takes the optional
\* ":dd".  The regex engine prefers a = 1, then k = 2, then m = 1.
AmPmWays == << <<1,2,1>>, <<1,2,0>>, <<1,1,1>>, <<1,1,0>>,
               <<0,2,1>>, <<0,2,0>>, <<0,1,1>>, <<0,1,0>> >>

AmPmParse(tv, w) ==
  LET a  == w[1]
      k  == w[2]
      m  == w[3]
      aOk == a = 0 \/ (StartsAt(tv, Around, 0) /\ Len(tv) > 6 /\ tv[7] \in Whitespace)
      p  == IF a = 1 /\ aOk THEN SkipWs(tv, 6) ELSE 0
      hOk == p + k <= Len(tv) /\ AllDigits(SubSeq(tv, p + 1, p + k))
      q  == p + k
      mOk == m = 0 \/ (q + 3 <= Len(tv) /\ tv[q + 1] = ":" /\ AllDigits(SubSeq(tv, q + 2, q + 3)))
      r  == SkipWs(tv, IF m = 1 THEN q + 3 ELSE q)
      sfx == {i \in 1..4 : StartsAt(tv, AmPmSuffixes[i], r)}
  IN  [ok   |-> aOk /\ hOk /\ mOk /\ sfx # {},
       h    |-> IF hOk THEN int(SubSeq(tv, p + 1, p + k)) ELSE 0,
       mins |-> IF m = 1 /\ mOk THEN SubSeq(tv, q + 2, q + 3) ELSE <<"0","0">>,
       pm   |-> sfx # {} /\ (CHOOSE i \in sfx : \A j \in sfx : i <= j) \in {2, 4}]

AmPmMatches(tv) == {i \in 1..Len(AmPmWays) : AmPmParse(tv, AmPmWays[i]).ok}

\* the 12-hour form converted to HH:MM
AmPmTime(tv) ==
  LET i == CHOOSE i \in AmPmMatches(tv) : \A j \in AmPmMatches(tv) : i <= j
      g == AmPmParse(tv, AmPmWays[i])
      h == IF g.pm /\ g.h # 12 THEN g.h + 12
           ELSE IF ~g.pm /\ g.h = 12 THEN 0
           ELSE g.h
  IN  Fmt02d(h) \o <<":">> \o g.mins

\* the keys of TIME_WORD_MAP that occur in tv, by their place in the dict
WordHits(tv) == {i \in 1..Len(TIME_WORD_MAP) : Contains(tv, TIME_WORD_MAP[i][1])}

\* time_of_event of a string value
NormTime(v) ==
  LET tv == lower(strip(v.s))
  IN  IF IsClock(tv)
      THEN LET colon == find(tv, <<":">>)
           IN  Str(Fmt02d(int(SubSeq(tv, 1, colon))) \o <<":">> \o SubSeq(tv, colon + 2, Len(tv)))
      ELSE IF HasKey(TIME_WORD_MAP, tv) THEN Str(Lookup(TIME_WORD_MAP, tv))
      ELSE IF AmPmMatches(tv) # {} THEN Str(AmPmTime(tv))
      ELSE IF WordHits(tv) # {}
           THEN Str(TIME_WORD_MAP[CHOOSE i \in WordHits(tv) : \A j \in WordHits(tv) : i <= j][2])
      ELSE Null

SanTime(c) ==
  LET time_val == get(c, "time_of_event")
  IN  IF IsStr(time_val) THEN [c EXCEPT !["time_of_event"] = NormTime(time_val)] ELSE c

Affirmative == { <<"t","r","u","e">>, <<"y","e","s">>, <<"1">> }

\* involves_other_witnesses: a boolean
SanWitness(c) ==
  LET wit == get(c, "involves_other_witnesses")
  IN  IF wit.t = "bool" THEN c
      ELSE IF IsStr(wit)
           THEN [c EXCEPT !["involves_other_witnesses"] =
                   Bool(lower(strip(wit.s)) \in Affirmative)]
      ELSE [c EXCEPT !["involves_other_witnesses"] = Bool(FALSE)]

MatterOfFact == <<"m","a","t","t","e","r","-","o","f","-","f","a","c","t">>

\* str.replace("_", "-")
ReplaceUnderscore(s) == [i \in 1..Len(s) |-> IF s[i] = "_" THEN "-" ELSE s[i]]

\* caller_emotional_tone: a member of VALID_TONES
SanTone(c) ==
  LET v    == get(c, "caller_emotional_tone")
      tone == IF Truthy(v) THEN v ELSE Str(<<>>)
      t    == ReplaceUnderscore(lower(strip(tone.s)))
  IN  [c EXCEPT !["caller_emotional_tone"] =
         IF ~IsStr(tone) THEN Str(MatterOfFact)
         ELSE IF t \in VALID_TONES THEN Str(t)
         ELSE IF HasKey(tone_map, t) THEN Str(Lookup(tone_map, t))
         ELSE Str(MatterOfFact)]

\* _sanitize_call(call): the blocks in their order.  An exception raised by
\* a block (the country, call_type and call_type_secondary blocks can raise)
\* ends the call there, with the dict mutated by the blocks before it.
_sanitize_call(c) ==
  LET r4 == SanCountry(SanState(SanName(SanNulls(c))))
      r5 == IF r4.ok THEN SanCallType(r4.call) ELSE r4
      r6 == IF r5.ok THEN SanCallType2(r5.call) ELSE r5
  IN  IF r6.ok THEN Ret(SanTone(SanWitness(SanTime(SanDate(r6.call))))) ELSE r6

-----------------------------------------------------------------------------
(***************************************************************************)
(* The records _sanitize_call is applied to.  An extractor's record is the *)
(* base record with one field replaced (and, for the state, the country    *)
(* too): the blocks of _sanitize_call are independent of each other but    *)
(* for the state block feeding the country block.  A field's value is any  *)
(* JSON value, one of the listed examples, or any string over the field's  *)
(* alphabet up to the length bound.                                        *)
(***************************************************************************)
MaxTimeLen  == 4
MaxDateLen  == 4
MaxStateLen == 3
MaxLabelLen == 2

\* all strings over the character set A of length at most n
Strings(A, n) == UNION {[1..k -> A] : k \in 0..n}

NonStrings == {Null, Missing, Bool(TRUE), Bool(FALSE), Num(0), Num(5),
               List(0), List(1), Obj(0), Obj(1)}

TimeExamples ==
  {<<"2","5",":","9","9">>, <<"1","3"," ","p","m">>, <<"a","r","o","u","n","d"," ","3"," ","i","n"," ","t","h","e"," ","a","f","t","e","r","n","o","o","n">>, <<"3",":","3","0"," ","P","M">>, <<"m","i","d","n","i","g","h","t">>,
   <<"1","2","a","m">>, <<"1","2"," ","p","m">>, <<"2"," ","a",".","m",".">>, <<"l","a","t","e"," ","a","t"," ","n","i","g","h","t">>, <<" ","0","7",":","4","5"," ">>, <<"a","r","o","u","n","d"," ","1","1","p","m">>,
   <<"e","a","r","l","y"," ","m","o","r","n","i","n","g"," ","h","o","u","r","s">>, <<"7",":","5">>, <<"s","o","m","e","t","i","m","e">>, <<"n","/","a">>,
   <<"9","9"," ","p","m">>, <<"8","8","p","m">>, <<"1","1",":","5","9"," ","p",".","m",".">>}
TimeStrings == TimeExamples \cup Strings({"1", "3", ":", "p", "m", " "}, MaxTimeLen)

DateExamples ==
  {<<"t","h","e"," ","9","0","s">>, <<"0","7">>, <<"1","9","9","0","s">>, <<"2","0","0","5">>, <<"2","0","0","5","-","0","7">>, <<"2","0","0","5","-","0","7","-","0","4">>,
   <<" ","2","0","0","5","-","0","7","-","0","4"," ">>, <<"1","9","9","0","s","-","2","0","0","0","s">>, <<"s","o","m","e","t","i","m","e"," ","b","e","t","w","e","e","n"," ","t","h","e"," ","8","0","s"," ","a","n","d"," ","2","0","0","5">>,
   <<"m","i","d","-","9","0","s">>, <<"s","u","m","m","e","r"," ","1","9","8","7">>, <<"2","9","s">>, <<"3","0","s">>, <<"n","/","a">>}
DateStrings == DateExamples \cup Strings({"1", "9", "-", "s", " "}, MaxDateLen)

StateExamples ==
  {<<"C","A">>, <<"c","a">>, <<"c","a","l","i">>, <<"S","o","C","a","l">>, <<"c","a","l","i","f","o","r","n","i","a">>, <<"C","A","L","I","F","O","R","N","I","A">>, <<"n","e","w"," ","y","o","r","k">>,
   <<"N","e","w"," ","y","o","r","k">>, <<"D","C">>, <<"n","/","a">>, <<"B","r","i","t","i","s","h"," ","C","o","l","u","m","b","i","a">>, <<"o","n","t","a","r","i","o">>, <<" ","T","e","x","a","s"," ">>,
   <<"o","'","n","e","i","l">>}
StateStrings == StateExamples \cup Strings({"c", "a", "C", "A", " ", "l"}, MaxStateLen)
CountryStrings == {<<"U","S","A">>, <<"C","a","n","a","d","a">>, <<"u","n","k","n","o","w","n">>}

\* every label as it is, lower-cased, upper-cased and with a leading blank
LabelExamples ==
  UNION {{label, lower(label), upper(label), <<" ">> \o label} : label \in VALID_ENTITY_LABELS}
    \cup {<<"G","h","o","s","t">>, <<"n","/","a">>}
LabelStrings == LabelExamples \cup Strings({"o", "O", "t", " "}, MaxLabelLen)

WitnessStrings ==
  {<<"t","r","u","e">>, <<"Y","e","s">>, <<" ","1"," ">>, <<"n","o">>, <<"f","a","l","s","e">>, <<>>, <<"T","R","U","E">>, <<"y">>}

ToneStrings ==
  UNION {{tone, upper(tone), <<" ">> \o tone} : tone \in VALID_TONES}
    \cup {tone_map[i][1] : i \in 1..Len(tone_map)}
    \cup {<<"m","a","t","t","e","r","_","o","f","_","f","a","c","t">>, <<"w","e","i","r","d">>, <<>>, <<"M","a","t","t","e","r"," ","O","f"," ","F","a","c","t">>}

OtherStrings == {<<"x">>, <<"n","/","a">>, <<"U","n","k","n","o","w","n"," ">>, <<>>, <<"A","n","o","n","y","m","o","u","s">>}

StringsFor(f) ==
  CASE f = "time_of_event"            -> TimeStrings
    [] f = "date_of_event"            -> DateStrings
    [] f = "state_or_region"          -> StateStrings
    [] f = "country"                  -> CountryStrings
    [] f \in {"call_type", "call_type_secondary"} -> LabelStrings
    [] f = "involves_other_witnesses" -> WitnessStrings
    [] f = "caller_emotional_tone"    -> ToneStrings
    [] OTHER                          -> OtherStrings

ValuesFor(f) == NonStrings \cup {Str(x) : x \in StringsFor(f)}

\* a record as a well-behaved extractor returns it when it knows nothing
BaseCall ==
  [f \in Fields |->
     CASE f = "call_type"                -> Str(Other)
       [] f = "involves_other_witnesses" -> Bool(FALSE)
       [] f = "caller_emotional_tone"    -> Str(<<"c","a","l","m">>)
       [] OTHER                          -> Null]

InputCalls ==
  {[BaseCall EXCEPT ![f] = v] : <<f, v>> \in UNION {{f} \X ValuesFor(f) : f \in Fields}}
    \cup {[BaseCall EXCEPT !["state_or_region"] = Str(x), !["country"] = Str(y)] :
            <<x, y>> \in StateStrings \X CountryStrings}

-----------------------------------------------------------------------------
(***************************************************************************)
(* _sanitize_call applied to a record, and applied again to its result     *)
(***************************************************************************)
InitSanitize ==
  /\ call_in \in InputCalls
  /\ call = call_in
  /\ call_once = call_in
  /\ san_pc = "input"

\* one call of _sanitize_call on the record; the dict is mutated in place,
\* also when the call raises
Sanitize ==
  /\ san_pc \in {"input", "once"}
  /\ LET r == _sanitize_call(call)
     IN  /\ call' = r.call
         /\ san_pc' = IF r.ok THEN (IF san_pc = "input" THEN "once" ELSE "twice")
                      ELSE (IF san_pc = "input" THEN "raised" ELSE "raised_again")
         /\ call_once' = IF r.ok /\ san_pc = "input" THEN r.call ELSE call_once
  /\ UNCHANGED call_in
  /\ UNCHANGED <<chunkVars, parseVars, verifyVars, reparseVars, resolveVars, fetchVars>>

IdleSanitize ==
  /\ call_in = BaseCall /\ call = BaseCall /\ call_once = BaseCall
  /\ san_pc = "idle"

-----------------------------------------------------------------------------
(***************************************************************************)
(* _chunk_transcript                                                       *)
(***************************************************************************)
\* the offsets reached from an offset of E by matching one of the strings alts
AfterAny(w, E, alts) ==
  {e + Len(a) : <<e, a>> \in {x \in E \X alts : StartsAt(w, x[2], x[1])}}
\* ... by matching one of alts or nothing: (?:a|b)?
AfterOpt(w, E, alts) == E \cup AfterAny(w, E, alts)
\* ... by matching .{lo,hi}: lo to hi characters, none of them a newline
AfterDots(w, E, lo, hi) ==
  {e + k : <<e, k>> \in {x \in E \X (lo..hi) :
                           /\ x[1] + x[2] <= Len(w)
                           /\ \A j \in 1..x[2] : w[x[1] + j] # "\n"}}

DotMax    == 30
LookAhead == 5000

\* (?=Now (?:folks|gang|working|from|moving|I also)) at offset i of w
Marker1(w, i) ==
  AfterAny(w, AfterAny(w, {i}, {<<"N","o","w"," ">>}),
           {<<"f","o","l","k","s">>, <<"g","a","n","g">>, <<"w","o","r","k","i","n","g">>, <<"f","r","o","m">>, <<"m","o","v","i","n","g">>, <<"I"," ","a","l","s","o">>}) # {}
\* (?=(?:Alright|All right),? (?:gang|folks)) at offset i of w
Marker2(w, i) ==
  AfterAny(w, AfterAny(w, AfterOpt(w, AfterAny(w, {i}, {<<"A","l","r","i","g","h","t">>, <<"A","l","l"," ","r","i","g","h","t">>}),
                                   {<<",">>}), {<<" ">>}),
           {<<"g","a","n","g">>, <<"f","o","l","k","s">>}) # {}
\* (?=(?:Thank you|Thanks),? .{1,30}(?:for (?:calling|sharing|ringing))) at offset i of w
Marker3(w, i) ==
  AfterAny(w, AfterAny(w, AfterDots(w, AfterAny(w, AfterOpt(w,
             AfterAny(w, {i}, {<<"T","h","a","n","k"," ","y","o","u">>, <<"T","h","a","n","k","s">>}), {<<",">>}), {<<" ">>}), 1, DotMax),
             {<<"f","o","r"," ">>}), {<<"c","a","l","l","i","n","g">>, <<"s","h","a","r","i","n","g">>, <<"r","i","n","g","i","n","g">>}) # {}

\* the list markers, in its order
MarkerAt(m, w, i) ==
  CASE m = 1 -> Marker1(w, i)
    [] m = 2 -> Marker2(w, i)
    [] m = 3 -> Marker3(w, i)
NumMarkers == 3

\* the test without its upper limit: max_chars * 0.5 < match.start()
WindowHits_NoUpperBound(m, w, mc) == {i \in 0..Len(w) : MarkerAt(m, w, i) /\ mc < 2 * i}

\* the starts of the matches of marker m in the window that pass the test
\* max_chars * 0.5 < match.start() < max_chars
WindowHits(m, w, mc) == {i \in 0..Len(w) : MarkerAt(m, w, i) /\ mc < 2 * i /\ i < mc}

Max(S) == CHOOSE x \in S : \A y \in S : y <= x

\* the value of best after the loop over the markers: each marker that has a
\* match in the window overwrites best with its last such match
Best(rem, mc) ==
  LET w    == Slice(rem, 0, mc + LookAhead)
      kinds == {m \in 1..NumMarkers : WindowHits(m, w, mc) # {}}
  IN  IF kinds = {} THEN mc ELSE Max(WindowHits(Max(kinds), w, mc))

\* the texts: examples, and every concatenation of at most MaxPieces pieces
MaxPieces == 3
Pieces ==
  <<<<"N","o","w"," ","g","a","n","g">>, <<"A","l","r","i","g","h","t",","," ","f","o","l","k","s">>, <<"T","h","a","n","k","s">>, <<" ","a"," ">>, <<"f","o","r"," ","c","a","l","l","i","n","g">>, <<"\n">>, <<"b","c">>>>
RECURSIVE Concat(_)
Concat(ps) == IF ps = <<>> THEN <<>> ELSE Pieces[Head(ps)] \o Concat(Tail(ps))
TextExamples ==
  {<<"i","n","t","r","o"," ","w","o","r","d","s"," ","h","e","r","e"," ","T","h","a","n","k","s"," ","N","o","w"," ","g","a","n","g"," ","f","o","r"," ","c","a","l","l","i","n","g"," ","i","n",".">>,
   <<"i","n","t","r","o"," ","w","o","r","d","s"," ","a","n","d"," ","m","o","r","e"," ","A","l","r","i","g","h","t"," ","g","a","n","g"," ","N","o","w"," ","f","r","o","m"," ","t","h","e"," ","t","o","p"," ","T","h","a","n","k","s",","," ","B","o","b"," ","f","o","r"," ","s","h","a","r","i","n","g","."," ","T","h","e"," ","e","n","d">>,
   <<"T","h","a","n","k"," ","y","o","u"," ","s","o"," ","m","u","c","h"," ","f","o","r"," ","r","i","n","g","i","n","g"," ","i","n","."," ","N","o","w"," ","f","o","l","k","s",","," ","N","o","w"," ","m","o","v","i","n","g"," ","o","n">>}
Texts == TextExamples \cup {Concat(ps) : ps \in Strings(1..Len(Pieces), MaxPieces)}
Budgets == {1, 2, 3, 7, 12, 30}

InitChunk ==
  /\ text \in Texts
  /\ max_chars \in Budgets
  /\ remaining = <<>>
  /\ chunks = <<>>
  /\ chunk_pc = "call"

\* if len(text) <= max_chars: return [text]; otherwise enter the loop
ChunkCall ==
  /\ chunk_pc = "call"
  /\ IF Len(text) <= max_chars
     THEN chunks' = <<text>> /\ remaining' = remaining /\ chunk_pc' = "done"
     ELSE chunks' = <<>> /\ remaining' = text /\ chunk_pc' = "loop"
  /\ UNCHANGED <<text, max_chars>>
  /\ UNCHANGED <<sanVars, parseVars, verifyVars, reparseVars, resolveVars, fetchVars>>

\* one iteration of while len(remaining) > max_chars
ChunkLoop ==
  /\ chunk_pc = "loop"
  /\ Len(remaining) > max_chars
  /\ LET best == Best(remaining, max_chars)
     IN  /\ chunks' = Append(chunks, Slice(remaining, 0, best))
         /\ remaining' = Slice(remaining, best, Len(remaining))
  /\ UNCHANGED <<text, max_chars, chunk_pc>>
  /\ UNCHANGED <<sanVars, parseVars, verifyVars, reparseVars, resolveVars, fetchVars>>

\* the loop ends and the rest of the text is not appended
ChunkReturn_DropsTail ==
  /\ chunk_pc = "loop"
  /\ Len(remaining) <= max_chars
  /\ chunk_pc' = "done"
  /\ UNCHANGED <<text, max_chars, remaining, chunks>>
  /\ UNCHANGED <<sanVars, parseVars, verifyVars, reparseVars, resolveVars, fetchVars>>

\* the loop ends: if remaining: chunks.append(remaining); return chunks
ChunkReturn ==
  /\ chunk_pc = "loop"
  /\ Len(remaining) <= max_chars
  /\ chunks' = IF remaining # <<>> THEN Append(chunks, remaining) ELSE chunks
  /\ chunk_pc' = "done"
  /\ UNCHANGED <<text, max_chars, remaining>>
  /\ UNCHANGED <<sanVars, parseVars, verifyVars, reparseVars, resolveVars, fetchVars>>

IdleChunk ==
  /\ text = <<>> /\ max_chars = 1 /\ remaining = <<>> /\ chunks = <<>>
  /\ chunk_pc = "idle"

-----------------------------------------------------------------------------
(***************************************************************************)
(* parse_transcripts: the per-session loop, its checkpoint files, and the  *)
(* process being killed and run again.                                     *)
(*                                                                         *)
(* The disk holds, per session (episode), the transcript file, the         *)
(* timestamps file, the checkpoint PARSED_DIR/<eid>.json and its temporary *)
(* file <eid>.json.tmp.  A file is [exists, complete, data]: complete is   *)
(* FALSE while a writer has it open, and stays FALSE if the writer dies.   *)
(***************************************************************************)
NumSessions == 2
MaxChunks   == 2
MaxRuns     == 2

Sessions == 1..NumSessions

Absent      == [exists |-> FALSE, complete |-> FALSE, data |-> <<>>]
FileOf(d)   == [exists |-> TRUE,  complete |-> TRUE,  data |-> d]
OpenFile(d) == [exists |-> TRUE,  complete |-> FALSE, data |-> d]

\* the records a backend response can hold
GoodCall == [BaseCall EXCEPT !["state_or_region"] = Str(<<"C","A">>),
                             !["caller_name"] = Str(<<"B","o","b">>),
                             !["time_of_event"] = Str(<<"3"," ","p","m">>)]
BadCall  == [BaseCall EXCEPT !["call_type"] = Num(5)]
OddCall  == [BaseCall EXCEPT !["caller_intro_snippet"] = Num(5)]

\* what one backend call can end in: an exception of _llm_call, a response
\* json.loads cannot decode, or a decoded list of records
ResponseLists == {<<GoodCall>>, <<GoodCall, BadCall>>, <<OddCall>>}
Outcomes ==
  {[kind |-> "api_error", data |-> <<>>], [kind |-> "bad_json", data |-> <<>>]}
    \cup {[kind |-> "json", data |-> d] : d \in ResponseLists}

\* for call in calls: ... _sanitize_call(call), on each list a response can hold
Sanitized == [d \in ResponseLists \cup {<<>>} |-> [i \in 1..Len(d) |-> _sanitize_call(d[i])]]

\* a record of episode_calls: the sanitized dict, where it came from
\* (session, chunk, index in the response), the pipeline stages that have
\* run on it, in order, and the field instance (0: not set)
Rec(s, c, i, d) == [src |-> <<s, c, i>>, call |-> d, stages |-> <<"sanitize">>, instance |-> 0]

AddStage(recs, st) ==
  [i \in 1..Len(recs) |-> [recs[i] EXCEPT !.stages = Append(@, st)]]

\* the numbering starts at 1 again for every list
Number_FromOne(recs, counter) ==
  [i \in 1..Len(recs) |-> [recs[i] EXCEPT !.instance = i]]

\* instance_counter += 1; call["instance"] = instance_counter, for each record
Number(recs, counter) ==
  [i \in 1..Len(recs) |-> [recs[i] EXCEPT !.instance = counter + i]]

\* (call.get(k) or "").lower() in _resolve_timestamps raises AttributeError
\* on a truthy value that is not a string
ResolveRaises(d) ==
  LET v == get(d, "caller_intro_snippet") IN Truthy(v) /\ ~IsStr(v)

\* (call.get(k) or "").strip() in _verify_calls raises likewise
VerifyRaises(d) ==
  \E k \in {"caller_intro_snippet", "caller_name", "state_or_region"} :
     Truthy(get(d, k)) /\ ~IsStr(get(d, k))

\* the try block of one chunk, after json.loads returned the records and
\* _sanitize_call ran on each (san holds the outcomes): the records to extend
\* episode_calls with, or an exception
ChunkBody(s, c, san, ts) ==
  LET recs == [i \in 1..Len(san) |-> Rec(s, c, i, san[i].call)]
  IN  IF \E i \in 1..Len(san) : ~san[i].ok THEN [ok |-> FALSE, recs |-> <<>>]
      ELSE IF ts /\ \E i \in 1..Len(san) : ResolveRaises(san[i].call)
           THEN [ok |-> FALSE, recs |-> <<>>]
      ELSE [ok |-> TRUE, recs |-> IF ts THEN AddStage(recs, "resolve") ELSE recs]

NoMemory ==
  /\ ep' = 0 /\ ci' = 0
  /\ episode_calls' = <<>> /\ all_calls' = <<>> /\ instance_counter' = 0
  /\ sleeps' = <<>> /\ outcome' = "none"

InitParse ==
  /\ credential \in BOOLEAN
  /\ transcript \in [Sessions -> {"absent", "unavailable", "text"}]
  /\ timestamps \in [Sessions -> BOOLEAN]
  /\ \A s \in Sessions : transcript[s] # "text" => ~timestamps[s]
  /\ nchunks \in [Sessions -> 1..MaxChunks]
  /\ \A s \in Sessions : transcript[s] # "text" => nchunks[s] = 1
  /\ parsed = [s \in Sessions |-> Absent]
  /\ tmp = [s \in Sessions |-> Absent]
  /\ pc = "start" /\ run = 1
  /\ ep = 0 /\ ci = 0
  /\ episode_calls = <<>> /\ all_calls = <<>> /\ instance_counter = 0
  /\ sleeps = <<>> /\ outcome = "none"
  /\ called = {} /\ checkpointed = {} /\ written = {}
  /\ complete_list = [s \in Sessions |-> <<>>]
  /\ skipped = {}

\* _get_llm_client(provider): raises when the key is missing
ParseStart ==
  /\ pc = "start"
  /\ IF credential
     THEN pc' = "session" /\ ep' = 1
     ELSE pc' = "config_error" /\ ep' = ep
  /\ all_calls' = <<>> /\ instance_counter' = 0
  /\ checkpointed' = {s \in Sessions : parsed[s].exists}
  /\ UNCHANGED <<diskVars, run, ci, episode_calls, sleeps, called, written, complete_list, skipped>>
  /\ UNCHANGED outcome
  /\ UNCHANGED <<sanVars, chunkVars, verifyVars, reparseVars, resolveVars, fetchVars>>

\* if parsed_path.exists(): load, number, extend all_calls, continue
\* (json.load raises on a file that is not a complete JSON document)
SessionCached ==
  /\ pc = "session" /\ ep \in Sessions
  /\ parsed[ep].exists
  /\ IF parsed[ep].complete
     THEN LET cached == Number(parsed[ep].data, instance_counter)
          IN  /\ all_calls' = all_calls \o cached
              /\ instance_counter' = instance_counter + Len(cached)
              /\ ep' = ep + 1
              /\ pc' = pc
     ELSE /\ pc' = "aborted"
          /\ UNCHANGED <<all_calls, instance_counter, ep>>
  /\ UNCHANGED <<diskVars, run, ci, episode_calls, sleeps, ghostVars>>
  /\ UNCHANGED outcome
  /\ UNCHANGED <<sanVars, chunkVars, verifyVars, reparseVars, resolveVars, fetchVars>>

\* no transcript file, or the TRANSCRIPT_UNAVAILABLE sentinel: continue
SessionSkip ==
  /\ pc = "session" /\ ep \in Sessions
  /\ ~parsed[ep].exists
  /\ transcript[ep] # "text"
  /\ ep' = ep + 1
  /\ UNCHANGED <<diskVars, pc, run, ci, episode_calls, all_calls, instance_counter,
                 sleeps, ghostVars>>
  /\ UNCHANGED outcome
  /\ UNCHANGED <<sanVars, chunkVars, verifyVars, reparseVars, resolveVars, fetchVars>>

\* a session is processed without the test of parsed_path.exists()
SessionBegin_NoCheck ==
  /\ pc = "session" /\ ep \in Sessions
  /\ transcript[ep] = "text"
  /\ episode_calls' = <<>>
  /\ ci' = 1
  /\ pc' = "chunk"
  /\ UNCHANGED <<diskVars, run, ep, all_calls, instance_counter, sleeps, ghostVars>>
  /\ UNCHANGED outcome
  /\ UNCHANGED <<sanVars, chunkVars, verifyVars, reparseVars, resolveVars, fetchVars>>

\* chunks = _chunk_transcript(text_clean); episode_calls = []
SessionBegin ==
  /\ pc = "session" /\ ep \in Sessions
  /\ ~parsed[ep].exists
  /\ transcript[ep] = "text"
  /\ episode_calls' = <<>>
  /\ ci' = 1
  /\ pc' = "chunk"
  /\ UNCHANGED <<diskVars, run, ep, all_calls, instance_counter, sleeps, ghostVars>>
  /\ UNCHANGED outcome
  /\ UNCHANGED <<sanVars, chunkVars, verifyVars, reparseVars, resolveVars, fetchVars>>

\* one chunk: the backend call, json.loads, _sanitize_call on every record,
\* _resolve_timestamps when the timestamps file exists, episode_calls.extend.
\* JSONDecodeError is logged; any other exception is logged and followed by
\* time.sleep(5).
ChunkAttempt ==
  /\ pc = "chunk" /\ ci <= nchunks[ep]
  /\ \E o \in Outcomes : \E san \in {Sanitized[o.data]} :
       \E body \in {ChunkBody(ep, ci, san, timestamps[ep])} :
           CASE o.kind = "api_error" ->
                  /\ pc' = "backoff" /\ episode_calls' = episode_calls
                  /\ outcome' = "api_error"
             [] o.kind = "bad_json" ->
                  /\ pc' = "cooldown" /\ episode_calls' = episode_calls
                  /\ outcome' = "bad_json"
             [] o.kind = "json" /\ ~body.ok ->
                  /\ pc' = "backoff" /\ episode_calls' = episode_calls
                  /\ outcome' = "raised"
             [] o.kind = "json" /\ body.ok ->
                  /\ pc' = "cooldown" /\ episode_calls' = episode_calls \o body.recs
                  /\ outcome' = "ok"
  /\ called' = called \cup {<<ep, ci>>}
  /\ skipped' = {x \in skipped : <<x[1], x[2]>> # <<ep, ci>>}
                  \cup (IF outcome' = "ok" THEN {} ELSE {<<ep, ci, outcome'>>})
  /\ sleeps' = <<>>
  /\ UNCHANGED <<diskVars, run, ep, ci, all_calls, instance_counter,
                 checkpointed, written, complete_list>>
  /\ UNCHANGED <<sanVars, chunkVars, verifyVars, reparseVars, resolveVars, fetchVars>>

\* time.sleep(5) of the except Exception branch
Backoff ==
  /\ pc = "backoff"
  /\ sleeps' = Append(sleeps, "backoff")
  /\ pc' = "cooldown"
  /\ UNCHANGED <<diskVars, run, ep, ci, episode_calls, all_calls, instance_counter, ghostVars>>
  /\ UNCHANGED outcome
  /\ UNCHANGED <<sanVars, chunkVars, verifyVars, reparseVars, resolveVars, fetchVars>>

\* the end of an iteration leaves the chunk loop when the chunk failed
Cooldown_BreakOnFailure ==
  /\ pc = "cooldown"
  /\ sleeps' = Append(sleeps, "cooldown")
  /\ ci' = IF outcome = "ok" THEN ci + 1 ELSE nchunks[ep] + 1
  /\ pc' = "chunk"
  /\ outcome' = "none"
  /\ UNCHANGED <<diskVars, run, ep, episode_calls, all_calls, instance_counter, ghostVars>>
  /\ UNCHANGED <<sanVars, chunkVars, verifyVars, reparseVars, resolveVars, fetchVars>>

\* time.sleep(1.5) at the end of every iteration
Cooldown ==
  /\ pc = "cooldown"
  /\ sleeps' = Append(sleeps, "cooldown")
  /\ ci' = ci + 1
  /\ pc' = "chunk"
  /\ outcome' = "none"
  /\ UNCHANGED <<diskVars, run, ep, episode_calls, all_calls, instance_counter, ghostVars>>
  /\ UNCHANGED <<sanVars, chunkVars, verifyVars, reparseVars, resolveVars, fetchVars>>

\* after the last chunk: _verify_calls (an exception it raises is not caught),
\* _score_vader_sentiment, the instance numbers
SessionFinish ==
  /\ pc = "chunk" /\ ci > nchunks[ep]
  /\ IF \E i \in 1..Len(episode_calls) : VerifyRaises(episode_calls[i].call)
     THEN /\ pc' = "aborted"
          /\ UNCHANGED <<episode_calls, instance_counter, complete_list>>
     ELSE LET done == Number(AddStage(AddStage(episode_calls, "verify"), "sentiment"),
                             instance_counter)
          IN  /\ episode_calls' = done
              /\ instance_counter' = instance_counter + Len(done)
              /\ complete_list' = [complete_list EXCEPT ![ep] = done]
              /\ pc' = "open"
  /\ UNCHANGED <<diskVars, run, ep, ci, all_calls, sleeps, called, checkpointed, written, skipped>>
  /\ UNCHANGED outcome
  /\ UNCHANGED <<sanVars, chunkVars, verifyVars, reparseVars, resolveVars, fetchVars>>

\* open(parsed_path, "w"): the checkpoint itself is created or truncated
OpenParsed ==
  /\ pc = "open"
  /\ parsed' = [parsed EXCEPT ![ep] = OpenFile(<<>>)]
  /\ pc' = "dump"
  /\ UNCHANGED <<credential, transcript, timestamps, nchunks, tmp, run, ep, ci,
                 episode_calls, all_calls, instance_counter, sleeps, ghostVars>>
  /\ UNCHANGED outcome
  /\ UNCHANGED <<sanVars, chunkVars, verifyVars, reparseVars, resolveVars, fetchVars>>

\* open(tmp_parsed, "w"): the temporary file is created or truncated
OpenTmp ==
  /\ pc = "open"
  /\ tmp' = [tmp EXCEPT ![ep] = OpenFile(<<>>)]
  /\ pc' = "dump"
  /\ UNCHANGED <<credential, transcript, timestamps, nchunks, parsed, run, ep, ci,
                 episode_calls, all_calls, instance_counter, sleeps, ghostVars>>
  /\ UNCHANGED outcome
  /\ UNCHANGED <<sanVars, chunkVars, verifyVars, reparseVars, resolveVars, fetchVars>>

\* json.dump(episode_calls, f): the records reach the file one after the
\* other; leaving the with block closes the file
DumpTmp ==
  /\ pc = "dump"
  /\ LET n == Len(tmp[ep].data)
     IN  IF n < Len(episode_calls)
         THEN /\ tmp' = [tmp EXCEPT ![ep] = OpenFile(Append(@.data, episode_calls[n + 1]))]
              /\ pc' = pc
         ELSE /\ tmp' = [tmp EXCEPT ![ep] = FileOf(@.data)]
              /\ pc' = "replace"
  /\ UNCHANGED <<credential, transcript, timestamps, nchunks, parsed, run, ep, ci,
                 episode_calls, all_calls, instance_counter, sleeps, ghostVars>>
  /\ UNCHANGED outcome
  /\ UNCHANGED <<sanVars, chunkVars, verifyVars, reparseVars, resolveVars, fetchVars>>

\* tmp_parsed.replace(parsed_path), an atomic rename, then
\* all_calls.extend(episode_calls) and the next session
ReplaceParsed ==
  /\ pc = "replace"
  /\ parsed' = [parsed EXCEPT ![ep] = tmp[ep]]
  /\ tmp' = [tmp EXCEPT ![ep] = Absent]
  /\ written' = written \cup {ep}
  /\ all_calls' = all_calls \o episode_calls
  /\ ep' = ep + 1
  /\ pc' = "session"
  /\ UNCHANGED <<credential, transcript, timestamps, nchunks, run, ci, episode_calls,
                 instance_counter, sleeps, called, checkpointed, complete_list, skipped>>
  /\ UNCHANGED outcome
  /\ UNCHANGED <<sanVars, chunkVars, verifyVars, reparseVars, resolveVars, fetchVars>>

\* return all_calls
ParseReturn ==
  /\ pc = "session" /\ ep > NumSessions
  /\ pc' = "done"
  /\ UNCHANGED <<diskVars, run, ep, ci, episode_calls, all_calls, instance_counter,
                 sleeps, ghostVars>>
  /\ UNCHANGED outcome
  /\ UNCHANGED <<sanVars, chunkVars, verifyVars, reparseVars, resolveVars, fetchVars>>

Running == pc \in {"start", "session", "chunk", "backoff", "cooldown", "open", "dump", "replace"}

\* the process is killed: what it held in memory is gone, the files stay as
\* they are
Crash ==
  /\ Running
  /\ pc' = "crashed"
  /\ NoMemory
  /\ UNCHANGED <<diskVars, run, ghostVars>>
  /\ UNCHANGED <<sanVars, chunkVars, verifyVars, reparseVars, resolveVars, fetchVars>>

\* the operator runs parse_transcripts again
Restart ==
  /\ pc \in {"done", "crashed", "aborted", "config_error"}
  /\ run < MaxRuns
  /\ run' = run + 1
  /\ pc' = "start"
  /\ NoMemory
  /\ called' = {} /\ checkpointed' = {} /\ written' = {}
  /\ UNCHANGED <<diskVars, complete_list, skipped>>
  /\ UNCHANGED <<sanVars, chunkVars, verifyVars, reparseVars, resolveVars, fetchVars>>

IdleParse ==
  /\ credential = TRUE
  /\ transcript = [s \in Sessions |-> "absent"]
  /\ timestamps = [s \in Sessions |-> FALSE]
  /\ nchunks = [s \in Sessions |-> 1]
  /\ parsed = [s \in Sessions |-> Absent]
  /\ tmp = [s \in Sessions |-> Absent]
  /\ pc = "idle" /\ run = 1
  /\ ep = 0 /\ ci = 0
  /\ episode_calls = <<>> /\ all_calls = <<>> /\ instance_counter = 0
  /\ sleeps = <<>> /\ outcome = "none"
  /\ called = {} /\ checkpointed = {} /\ written = {}
  /\ complete_list = [s \in Sessions |-> <<>>]
  /\ skipped = {}

NextParse ==
  \/ ParseStart \/ SessionCached \/ SessionSkip \/ SessionBegin
  \/ ChunkAttempt \/ Backoff \/ Cooldown \/ SessionFinish
  \/ OpenTmp \/ DumpTmp \/ ReplaceParsed \/ ParseReturn
  \/ Crash \/ Restart

-----------------------------------------------------------------------------
(***************************************************************************)
(* _verify_calls: each record is checked against the transcript and gets   *)
(* the keys verified and verification_evidence.  A record here is a dict   *)
(* over VerifyFields, a key it does not hold being "missing".              *)
(***************************************************************************)
VerifyFields ==
  {"caller_intro_snippet", "caller_name", "state_or_region", "description",
   "call_type", "verified", "verification_evidence"}

\* (call.get(key) or "")
GetOrEmpty(c, key) == IF Truthy(get(c, key)) THEN get(c, key) ELSE Str(<<>>)

\* str.split(): the maximal runs of characters that are not whitespace
RECURSIVE split(_)
split(s) ==
  LET u  == strip(s)
      ws == {i \in 1..Len(u) : u[i] \in Whitespace}
      e  == IF ws = {} THEN Len(u) + 1 ELSE CHOOSE i \in ws : \A j \in ws : i <= j
  IN  IF u = <<>> THEN <<>>
      ELSE <<SubSeq(u, 1, e - 1)>> \o split(SubSeq(u, e, Len(u)))

\* sep.join(ws)
RECURSIVE join(_, _)
join(sep, ws) ==
  IF ws = <<>> THEN <<>>
  ELSE IF Len(ws) = 1 THEN ws[1]
  ELSE ws[1] \o sep \o join(sep, Tail(ws))

SnippetWords    == 5
MinSnippetWords == 3
MinWordLen      == 4
MinWordMatches  == 3

\* the characters \w matches
IsWordChar(c) == IsCased(c) \/ c \in Digits \/ c = "_"

\* re.findall(r"\b[a-z]{4,}\b", s): the maximal runs of word characters of s
\* that are lower-case letters only and at least four of them, as <<first,
\* last>> (one per occurrence)
DescWords(s) ==
  {r \in (1..Len(s)) \X (1..Len(s)) :
     /\ r[2] - r[1] + 1 >= MinWordLen
     /\ \A i \in r[1]..r[2] : IsLower(s[i])
     /\ r[1] = 1 \/ ~IsWordChar(s[r[1] - 1])
     /\ r[2] = Len(s) \/ ~IsWordChar(s[r[2] + 1])}

\* the four checks of one record against the lower-cased transcript
SnippetMatch(c, t_lower) ==
  LET snippet == strip(GetOrEmpty(c, "caller_intro_snippet").s)
  IN  snippet # <<>> /\ Contains(t_lower, lower(snippet))

SnippetPartial(c, t_lower) ==
  LET snippet == strip(GetOrEmpty(c, "caller_intro_snippet").s)
      words   == Slice(split(lower(snippet)), 0, SnippetWords)
  IN  /\ snippet # <<>> /\ ~Contains(t_lower, lower(snippet))
      /\ Len(words) >= MinSnippetWords /\ Contains(t_lower, join(<<" ">>, words))

NameFound(c, t_lower) ==
  LET name == strip(GetOrEmpty(c, "caller_name").s)
  IN  name # <<>> /\ Contains(t_lower, lower(name))

StateFound(c, t_lower) ==
  LET state == strip(GetOrEmpty(c, "state_or_region").s)
  IN  state # <<>> /\ Contains(t_lower, lower(state))

DescWordsMatch(c, t_lower) ==
  LET desc    == lower(strip(GetOrEmpty(c, "description").s))
      matches == {r \in DescWords(desc) : Contains(t_lower, SubSeq(desc, r[1], r[2]))}
  IN  desc # <<>> /\ Cardinality(matches) >= MinWordMatches

None == <<"n","o","n","e">>

\* the list evidence of one record, in the order of the checks
Evidence_NoState(c, t_lower) ==
  (IF SnippetMatch(c, t_lower) THEN <<<<"s","n","i","p","p","e","t","_","m","a","t","c","h">>>> ELSE <<>>)
    \o (IF SnippetPartial(c, t_lower) THEN <<<<"s","n","i","p","p","e","t","_","p","a","r","t","i","a","l">>>> ELSE <<>>)
    \o (IF NameFound(c, t_lower) THEN <<<<"n","a","m","e","_","f","o","u","n","d">>>> ELSE <<>>)
    \o (IF DescWordsMatch(c, t_lower) THEN <<<<"d","e","s","c","_","w","o","r","d","s","_","m","a","t","c","h">>>> ELSE <<>>)

Evidence(c, t_lower) ==
  (IF SnippetMatch(c, t_lower) THEN <<<<"s","n","i","p","p","e","t","_","m","a","t","c","h">>>> ELSE <<>>)
    \o (IF SnippetPartial(c, t_lower) THEN <<<<"s","n","i","p","p","e","t","_","p","a","r","t","i","a","l">>>> ELSE <<>>)
    \o (IF NameFound(c, t_lower) THEN <<<<"n","a","m","e","_","f","o","u","n","d">>>> ELSE <<>>)
    \o (IF StateFound(c, t_lower) THEN <<<<"s","t","a","t","e","_","f","o","u","n","d">>>> ELSE <<>>)
    \o (IF DescWordsMatch(c, t_lower) THEN <<<<"d","e","s","c","_","w","o","r","d","s","_","m","a","t","c","h">>>> ELSE <<>>)

\* .strip() on a truthy value that is not a string raises AttributeError
StripRaises(c) ==
  \E k \in {"caller_intro_snippet", "caller_name", "state_or_region", "description"} :
     ~IsStr(GetOrEmpty(c, k))

\* the body of the loop for one record, with the stripped snippet stored
VerifyOne_StoresSnippet(c, t_lower) ==
  LET evidence == Evidence(c, t_lower)
  IN  [c EXCEPT !["verified"] = Bool(Len(evidence) > 0),
                !["verification_evidence"] =
                    Str(IF evidence # <<>> THEN join(<<",">>, evidence) ELSE None),
                !["caller_intro_snippet"] =
                    Str(strip(GetOrEmpty(c, "caller_intro_snippet").s))]

\* the body of the loop for one record that does not raise
VerifyOne(c, t_lower) ==
  LET evidence == Evidence(c, t_lower)
  IN  [c EXCEPT !["verified"] = Bool(Len(evidence) > 0),
                !["verification_evidence"] =
                    Str(IF evidence # <<>> THEN join(<<",">>, evidence) ELSE None)]

\* the log summary shows the first UnverifiedShown records that are not
\* verified; c.get('description','?')[:60] raises TypeError on a value that
\* cannot be sliced
UnverifiedShown == 3
Sliceable(v) == v.t \in {"str", "list", "missing"}
LogRaises(calls) ==
  LET unverified == SelectSeq(calls, LAMBDA c : ~Truthy(get(c, "verified")))
  IN  \E i \in 1..Len(unverified) :
         i <= UnverifiedShown /\ ~Sliceable(unverified[i]["description"])

\* _verify_calls(calls, transcript), text_ being the transcript: the records
\* up to the first that raises are annotated, and the log summary follows the
\* loop; [ok, calls]
_verify_calls(calls, text_) ==
  LET t_lower == lower(text_)
      bad     == {i \in 1..Len(calls) : StripRaises(calls[i])}
      stop    == IF bad = {} THEN Len(calls) + 1 ELSE CHOOSE i \in bad : \A j \in bad : i <= j
      out     == [i \in 1..Len(calls) |->
                    IF i < stop THEN VerifyOne(calls[i], t_lower) ELSE calls[i]]
  IN  [ok |-> bad = {} /\ ~LogRaises(out), calls |-> out]

\* the inputs: two transcripts, and the records made of the values below
Transcripts ==
  {<<"H","e","l","l","o",","," ","T","H","I","S"," ","i","s"," ","B","o","b"," ","c","a","l","l","i","n","g"," ","f","r","o","m"," ","O","h","i","o"," ","t","o","n","i","g","h","t","."," ","I"," ","s","a","w"," ","a"," ","g","h","o","s","t"," ","n","e","a","r"," ","t","h","e"," ","l","a","k","e",".">>,
   <<"W","e","l","c","o","m","e"," ","b","a","c","k"," ","t","o"," ","t","h","e"," ","s","h","o","w",","," ","s","h","a","r","i","n","g"," ","s","t","o","r","i","e","s"," ","f","r","o","m"," ","U","t","a","h",".">>}

SnippetValues ==
  {Null, Num(5),
   Str(<<" ","t","h","i","s"," ","i","s"," ","b","o","b"," ","c","a","l","l","i","n","g"," ","f","r","o","m"," ","o","h","i","o"," ">>), Str(<<"T","h","i","s"," ","i","s"," "," ","B","o","b"," ","c","a","l","l","i","n","g"," ","f","r","o","m"," ","T","e","x","a","s",","," ","h","i">>),
   Str(<<"n","o"," ","s","u","c","h"," ","w","o","r","d","s">>), Str(<<"h","e","y"," ","t","h","e","r","e">>)}
NameValues  == {Null, Str(<<"B","o","b">>), Str(<<"Z","e","d">>), Str(<<>>)}
StateValues == {Null, Str(<<"O","h","i","o">>), Str(<<"U","t","a","h">>)}
DescValues  ==
  {Null, Str(<<"g","h","o","s","t"," ","g","h","o","s","t"," ","g","h","o","s","t">>), Str(<<"S","a","w"," ","a"," ","g","h","o","s","t"," ","n","e","a","r"," ","t","h","e"," ","l","a","k","e">>),
   Str(<<"a"," ","g","h","o","s","t"," ","b","y"," ","t","h","e"," ","l","a","k","e","2"," ","n","e","a","r","_","b","y">>), Str(<<"d","o","n","'","t"," ","r","i","n","g"," ","t","h","e","l","a","k","e"," ","t","o","n","i","g","h","t","s">>), List(1)}

VerifyRecord(sn, nm, st, de) ==
  [k \in VerifyFields |->
     CASE k = "caller_intro_snippet" -> sn
       [] k = "caller_name"          -> nm
       [] k = "state_or_region"      -> st
       [] k = "description"          -> de
       [] k = "call_type"            -> Str(Other)
       [] OTHER                      -> Missing]

VerifyRecords ==
  {VerifyRecord(x[1], x[2], x[3], x[4]) :
     x \in SnippetValues \X NameValues \X StateValues \X DescValues}

PlainRecord == VerifyRecord(Null, Str(<<"B","o","b">>), Null, Str(<<>>))

\* the lists: a record with up to MaxVerifyLen - 1 copies of PlainRecord before
\* or after it
MaxVerifyLen == 2
Pad(n) == [i \in 1..n |-> PlainRecord]
VerifyLists ==
  UNION {{<<r>> \o Pad(n - 1), Pad(n - 1) \o <<r>>} :
           r \in VerifyRecords, n \in 1..MaxVerifyLen}

InitVerify ==
  /\ verify_transcript \in Transcripts
  /\ verify_in \in VerifyLists
  /\ verify_calls = verify_in
  /\ verify_pc = "call"

\* one call of _verify_calls; the records are mutated in place
Verify ==
  /\ verify_pc = "call"
  /\ LET r == _verify_calls(verify_calls, verify_transcript)
     IN  /\ verify_calls' = r.calls
         /\ verify_pc' = IF r.ok THEN "done" ELSE "raised"
  /\ UNCHANGED <<verify_transcript, verify_in>>
  /\ UNCHANGED <<sanVars, chunkVars, parseVars, reparseVars, resolveVars, fetchVars>>

IdleVerify ==
  /\ verify_transcript = <<>> /\ verify_in = <<>> /\ verify_calls = <<>>
  /\ verify_pc = "idle"

-----------------------------------------------------------------------------
(***************************************************************************)
(* reparse_regions: every checkpoint file that is not marked yet is loaded, *)
(* the location of each of its records is asked from the backend again and *)
(* patched in, and the file is replaced.  It works on the files             *)
(* parse_transcripts wrote, so it shares pc, credential, transcript, parsed *)
(* and tmp with it; a run of either starts when the other has ended.        *)
(***************************************************************************)
MaxReparseRuns == 2

LocFields == {"country", "state_or_region", "city"}
Marker    == "_regions_reparsed"

\* what json.loads(raw) can be when it is a dict: the three keys, a key the
\* answer does not hold being "missing"
Loc(co, st, ci_) ==
  [f \in LocFields |-> CASE f = "country" -> co [] f = "state_or_region" -> st [] OTHER -> ci_]

Locations ==
  {Loc(Str(<<"U","S">>), Str(<<"t","x">>), Str(<<"W","a","c","o">>)),
   Loc(Str(<<"n","/","a">>), Null, Str(<<" ","U","n","k","n","o","w","n"," ">>)),
   Loc(Missing, List(1), Str(<<"W","a","c","o">>))}

\* what one backend call of reparse_regions can end in: an exception of
\* _llm_call, a response json.loads cannot decode, a decoded value that is not
\* a dict (loc.get raises), or a dict
ReparseOutcomes ==
  {[kind |-> k, loc |-> Loc(Missing, Missing, Missing)] : k \in {"api_error", "bad_json", "not_dict"}}
    \cup {[kind |-> "dict", loc |-> l] : l \in Locations}

\* for field in ("country", "state_or_region", "city"): call[field] = ...
PatchLocation(c, loc) ==
  [k \in DOMAIN c |->
     IF k \in LocFields
     THEN (IF loc[k].t = "missing" \/ NullLike(loc[k]) THEN Null ELSE loc[k])
     ELSE c[k]]

\* the patch also rewrites another field of the record
ReparsePatch_TouchesName(c, loc) ==
  LET r == SanCountry(SanState(PatchLocation(c, loc)))
  IN  [ok |-> r.ok, call |-> [r.call EXCEPT !["caller_name"] = Null]]

\* the body of the try block once loc is a dict: the patch, the state
\* normalization and the country rule; [ok, call], ok FALSE when the
\* membership test raised
ReparsePatch(c, loc) == SanCountry(SanState(PatchLocation(c, loc)))

\* call["_regions_reparsed"] = True
Mark(c) == [k \in DOMAIN c \cup {Marker} |-> IF k = Marker THEN Bool(TRUE) ELSE c[k]]

\* calls[0].get("_regions_reparsed")
Marked(c) == Marker \in DOMAIN c /\ Truthy(c[Marker])

\* the checkpoint of a session carries the marker
CarriesMarker(f) == f.exists /\ \E i \in 1..Len(f.data) : Marked(f.data[i].call)

\* sorted(PARSED_DIR.glob("*.json")): the next file after session s, in the
\* order of the names (NumSessions + 1: none)
NextFile(s) ==
  LET later == {x \in Sessions : x > s /\ parsed[x].exists}
  IN  IF later = {} THEN NumSessions + 1 ELSE CHOOSE x \in later : \A y \in later : x <= y

NoReparseMemory ==
  /\ pf' = 0 /\ pf_calls' = <<>> /\ call_idx' = 0 /\ changed' = FALSE

\* the operator runs reparse_regions
RestartReparse ==
  /\ pc \in {"done", "crashed", "aborted", "config_error"}
  /\ reparse_run < MaxReparseRuns
  /\ reparse_run' = reparse_run + 1
  /\ pc' = "r_start"
  /\ NoMemory /\ NoReparseMemory
  /\ reparse_called' = {}
  /\ UNCHANGED <<repaired, reparse_answer>>
  /\ UNCHANGED <<diskVars, run, ghostVars>>
  /\ UNCHANGED <<sanVars, chunkVars, verifyVars, resolveVars, fetchVars>>

\* reparse_regions without _get_llm_client(provider)
ReparseStart_NoCheck ==
  /\ pc = "r_start"
  /\ pf' = NextFile(0)
  /\ pc' = IF NextFile(0) > NumSessions THEN "done" ELSE "r_file"
  /\ UNCHANGED <<pf_calls, call_idx, changed, reparse_run, reparse_called, repaired, reparse_answer>>
  /\ UNCHANGED parseMemory
  /\ UNCHANGED <<diskVars, run, ghostVars>>
  /\ UNCHANGED <<sanVars, chunkVars, verifyVars, resolveVars, fetchVars>>

\* _get_llm_client(provider), which raises when the key is missing, then the
\* list of the files; no file: return
ReparseStart ==
  /\ pc = "r_start"
  /\ IF credential
     THEN /\ pf' = NextFile(0)
          /\ pc' = IF NextFile(0) > NumSessions THEN "done" ELSE "r_file"
     ELSE /\ pf' = pf
          /\ pc' = "config_error"
  /\ UNCHANGED <<pf_calls, call_idx, changed, reparse_run, reparse_called, repaired, reparse_answer>>
  /\ UNCHANGED parseMemory
  /\ UNCHANGED <<diskVars, run, ghostVars>>
  /\ UNCHANGED <<sanVars, chunkVars, verifyVars, resolveVars, fetchVars>>

\* the file is processed whether or not its first record is marked
ReparseFile_NoSkip ==
  /\ pc = "r_file" /\ pf \in Sessions
  /\ IF ~parsed[pf].complete
     THEN pc' = "aborted" /\ NoReparseMemory
     ELSE IF parsed[pf].data = <<>> \/ transcript[pf] # "text"
     THEN /\ pf' = NextFile(pf)
          /\ UNCHANGED <<pc, pf_calls, call_idx, changed>>
     ELSE /\ pf_calls' = parsed[pf].data
          /\ call_idx' = 1 /\ changed' = FALSE
          /\ pc' = "r_call"
          /\ pf' = pf
  /\ UNCHANGED <<reparse_run, reparse_called, repaired, reparse_answer>>
  /\ UNCHANGED parseMemory
  /\ UNCHANGED <<diskVars, run, ghostVars>>
  /\ UNCHANGED <<sanVars, chunkVars, verifyVars, resolveVars, fetchVars>>

\* calls = json.load(open(pf)), which raises on a file that is not a complete
\* JSON document; continue on an empty list, on a marked first record, on a
\* missing or unavailable transcript
ReparseFile ==
  /\ pc = "r_file" /\ pf \in Sessions
  /\ IF ~parsed[pf].complete
     THEN pc' = "aborted" /\ NoReparseMemory
     ELSE IF \/ parsed[pf].data = <<>>
             \/ Marked(parsed[pf].data[1].call)
             \/ transcript[pf] # "text"
     THEN /\ pf' = NextFile(pf)
          /\ UNCHANGED <<pc, pf_calls, call_idx, changed>>
     ELSE /\ pf_calls' = parsed[pf].data
          /\ call_idx' = 1 /\ changed' = FALSE
          /\ pc' = "r_call"
          /\ pf' = pf
  /\ UNCHANGED <<reparse_run, reparse_called, repaired, reparse_answer>>
  /\ UNCHANGED parseMemory
  /\ UNCHANGED <<diskVars, run, ghostVars>>
  /\ UNCHANGED <<sanVars, chunkVars, verifyVars, resolveVars, fetchVars>>

\* the iteration with the three fields cleared when the answer is no dict
ReparseCall_ClearsOnFailure ==
  /\ pc = "r_call" /\ call_idx <= Len(pf_calls)
  /\ LET c == pf_calls[call_idx].call
     IN  IF Truthy(get(c, "caller_intro_snippet")) /\ ~IsStr(get(c, "caller_intro_snippet"))
         THEN /\ pc' = "aborted" /\ NoReparseMemory
              /\ reparse_called' = reparse_called
              /\ repaired' = repaired /\ reparse_answer' = reparse_answer
         ELSE /\ \E o \in ReparseOutcomes : \E r \in {ReparsePatch(c, o.loc)} :
                   /\ reparse_answer' = o.kind
                   /\ pf_calls' = [pf_calls EXCEPT ![call_idx].call = r.call]
                   /\ changed' = (changed \/ (o.kind = "dict" /\ r.ok))
                   /\ repaired' = IF o.kind = "dict" /\ r.ok
                                  THEN repaired \cup {<<pf, call_idx>>} ELSE repaired
              /\ reparse_called' = reparse_called \cup {<<pf, call_idx>>}
              /\ call_idx' = call_idx + 1
              /\ UNCHANGED <<pc, pf>>
  /\ UNCHANGED reparse_run
  /\ UNCHANGED parseMemory
  /\ UNCHANGED <<diskVars, run, ghostVars>>
  /\ UNCHANGED <<sanVars, chunkVars, verifyVars, resolveVars, fetchVars>>

\* one iteration of for call in calls: snippet.lower() raises, outside the
\* try, on a truthy snippet that is not a string; otherwise the backend is
\* called, the record is patched when the answer is a dict, every exception
\* of the try block is logged, and time.sleep(1.0) ends the iteration
ReparseCall ==
  /\ pc = "r_call" /\ call_idx <= Len(pf_calls)
  /\ LET c == pf_calls[call_idx].call
     IN  IF Truthy(get(c, "caller_intro_snippet")) /\ ~IsStr(get(c, "caller_intro_snippet"))
         THEN /\ pc' = "aborted" /\ NoReparseMemory
              /\ reparse_called' = reparse_called
              /\ repaired' = repaired /\ reparse_answer' = reparse_answer
         ELSE /\ \E o \in ReparseOutcomes : \E r \in {ReparsePatch(c, o.loc)} :
                   /\ reparse_answer' = o.kind
                   /\ IF o.kind = "dict"
                      THEN /\ pf_calls' = [pf_calls EXCEPT ![call_idx].call = r.call]
                           /\ changed' = (changed \/ r.ok)
                           /\ repaired' = IF r.ok THEN repaired \cup {<<pf, call_idx>>}
                                                  ELSE repaired
                      ELSE UNCHANGED <<pf_calls, changed, repaired>>

              /\ reparse_called' = reparse_called \cup {<<pf, call_idx>>}
              /\ call_idx' = call_idx + 1
              /\ UNCHANGED <<pc, pf>>
  /\ UNCHANGED reparse_run
  /\ UNCHANGED parseMemory
  /\ UNCHANGED <<diskVars, run, ghostVars>>
  /\ UNCHANGED <<sanVars, chunkVars, verifyVars, resolveVars, fetchVars>>

\* after the loop: nothing changed, so the next file
ReparseUnchanged ==
  /\ pc = "r_call" /\ call_idx > Len(pf_calls) /\ ~changed
  /\ pf' = NextFile(pf)
  /\ pc' = "r_file"
  /\ pf_calls' = <<>> /\ call_idx' = 0
  /\ UNCHANGED <<changed, reparse_run, reparse_called, repaired, reparse_answer>>
  /\ UNCHANGED parseMemory
  /\ UNCHANGED <<diskVars, run, ghostVars>>
  /\ UNCHANGED <<sanVars, chunkVars, verifyVars, resolveVars, fetchVars>>

\* after the loop, if changed: every record is marked and
\* open(tmp, "w") creates or truncates <eid>.json.tmp
ReparseOpenTmp ==
  /\ pc = "r_call" /\ call_idx > Len(pf_calls) /\ changed
  /\ pf_calls' = [i \in 1..Len(pf_calls) |-> [pf_calls[i] EXCEPT !.call = Mark(@)]]
  /\ tmp' = [tmp EXCEPT ![pf] = OpenFile(<<>>)]
  /\ pc' = "r_dump"
  /\ UNCHANGED <<pf, call_idx, changed, reparse_run, reparse_called, repaired, reparse_answer>>
  /\ UNCHANGED parseMemory
  /\ UNCHANGED <<credential, transcript, timestamps, nchunks, parsed, run, ghostVars>>
  /\ UNCHANGED <<sanVars, chunkVars, verifyVars, resolveVars, fetchVars>>

\* json.dump(calls, f, indent=2): the records reach the file one after the
\* other, and the with block closes it
ReparseDump ==
  /\ pc = "r_dump"
  /\ LET n == Len(tmp[pf].data)
     IN  IF n < Len(pf_calls)
         THEN /\ tmp' = [tmp EXCEPT ![pf] = OpenFile(Append(@.data, pf_calls[n + 1]))]
              /\ pc' = pc
         ELSE /\ tmp' = [tmp EXCEPT ![pf] = FileOf(@.data)]
              /\ pc' = "r_replace"
  /\ UNCHANGED <<pf, pf_calls, call_idx, changed, reparse_run, reparse_called, repaired, reparse_answer>>
  /\ UNCHANGED parseMemory
  /\ UNCHANGED <<credential, transcript, timestamps, nchunks, parsed, run, ghostVars>>
  /\ UNCHANGED <<sanVars, chunkVars, verifyVars, resolveVars, fetchVars>>

\* tmp.replace(pf), an atomic rename, then the next file
ReparseReplace ==
  /\ pc = "r_replace"
  /\ parsed' = [parsed EXCEPT ![pf] = tmp[pf]]
  /\ tmp' = [tmp EXCEPT ![pf] = Absent]
  /\ pf' = NextFile(pf)
  /\ pc' = "r_file"
  /\ pf_calls' = <<>> /\ call_idx' = 0
  /\ UNCHANGED <<changed, reparse_run, reparse_called, repaired, reparse_answer>>
  /\ UNCHANGED parseMemory
  /\ UNCHANGED <<credential, transcript, timestamps, nchunks, run, ghostVars>>
  /\ UNCHANGED <<sanVars, chunkVars, verifyVars, resolveVars, fetchVars>>

\* the loop over the files is over
ReparseReturn ==
  /\ pc = "r_file" /\ pf > NumSessions
  /\ pc' = "done"
  /\ NoReparseMemory
  /\ UNCHANGED <<reparse_run, reparse_called, repaired, reparse_answer>>
  /\ UNCHANGED parseMemory
  /\ UNCHANGED <<diskVars, run, ghostVars>>
  /\ UNCHANGED <<sanVars, chunkVars, verifyVars, resolveVars, fetchVars>>

Reparsing == pc \in {"r_start", "r_file", "r_call", "r_dump", "r_replace"}

\* the process is killed while reparse_regions runs
ReparseCrash ==
  /\ Reparsing
  /\ pc' = "crashed"
  /\ NoReparseMemory
  /\ UNCHANGED <<reparse_run, reparse_called, repaired, reparse_answer>>
  /\ UNCHANGED parseMemory
  /\ UNCHANGED <<diskVars, run, ghostVars>>
  /\ UNCHANGED <<sanVars, chunkVars, verifyVars, resolveVars, fetchVars>>

\* between two runs the operator removes the key from .env
RemoveCredential ==
  /\ pc \in {"done", "crashed", "aborted", "config_error"}
  /\ credential
  /\ credential' = FALSE
  /\ UNCHANGED <<transcript, timestamps, nchunks, parsed, tmp>>
  /\ UNCHANGED <<pc, run, ghostVars>>
  /\ UNCHANGED parseMemory
  /\ UNCHANGED reparseVars
  /\ UNCHANGED <<sanVars, chunkVars, verifyVars, resolveVars, fetchVars>>

IdleReparse ==
  /\ pf = 0 /\ pf_calls = <<>> /\ call_idx = 0 /\ changed = FALSE
  /\ reparse_run = 0 /\ reparse_called = {} /\ repaired = {} /\ reparse_answer = "none"

NextReparse ==
  \/ RestartReparse \/ ReparseStart \/ ReparseFile \/ ReparseCall
  \/ ReparseUnchanged \/ ReparseOpenTmp \/ ReparseDump \/ ReparseReplace
  \/ ReparseReturn \/ ReparseCrash \/ RemoveCredential

-----------------------------------------------------------------------------
(***************************************************************************)
(* _resolve_timestamps: each record gets call_start_time, the start label  *)
(* of the segment of the timestamps file in which its snippet (or a phrase *)
(* with its name) is found.  A record here is a dict over ResolveFields.   *)
(***************************************************************************)
ResolveFields == {"caller_intro_snippet", "caller_name", "call_start_time"}

SixWords == 6

\* full_text and char_to_time: the texts of the segments, each followed by a
\* blank, and for every segment <<start_pos, end, start_hms>>
RECURSIVE FullText(_)
FullText(segments) ==
  IF segments = <<>> THEN <<>>
  ELSE FullText(SubSeq(segments, 1, Len(segments) - 1))
         \o segments[Len(segments)].text \o <<" ">>

CharToTime(segments) ==
  [i \in 1..Len(segments) |->
     <<Len(FullText(SubSeq(segments, 1, i - 1))), Len(FullText(SubSeq(segments, 1, i))),
       segments[i].start_hms>>]

\* the label of the first segment with cs <= idx < ce, None when there is none
LabelAt(segments, idx) ==
  LET ctt  == CharToTime(segments)
      hits == {i \in 1..Len(ctt) : ctt[i][1] <= idx /\ idx < ctt[i][2]}
  IN  IF idx < 0 \/ hits = {} THEN Null
      ELSE Str(ctt[CHOOSE i \in hits : \A j \in hits : i <= j][3])

Anonymous == <<"a","n","o","n","y","m","o","u","s">>

\* the patterns tried for a name, in their order
NamePatterns(name) ==
  <<<<"t","h","i","s"," ","i","s"," ">> \o name, <<"m","y"," ","n","a","m","e"," ","i","s"," ">> \o name, <<"c","a","l","l"," ","m","e"," ">> \o name>>

\* for pat in [...]: idx = full_lower.find(pat); break on the first found
NameIdx(full_lower, name) ==
  LET pats == NamePatterns(name)
      hits == {i \in 1..Len(pats) : find(full_lower, pats[i]) # -1}
  IN  IF name = <<>> \/ name = Anonymous \/ hits = {} THEN -1
      ELSE find(full_lower, pats[CHOOSE i \in hits : \A j \in hits : i <= j])

\* idx for a record whose snippet is not empty: the full snippet, then its
\* first six words, then the name
SnippetIdx(c, full_lower) ==
  LET snippet == strip(lower(GetOrEmpty(c, "caller_intro_snippet").s))
      idx1 == find(full_lower, snippet)
      idx2 == find(full_lower, join(<<" ">>, Slice(split(snippet), 0, SixWords)))
  IN  IF idx1 # -1 THEN idx1
      ELSE IF idx2 # -1 THEN idx2
      ELSE NameIdx(full_lower, lower(GetOrEmpty(c, "caller_name").s))

\* .lower() on a truthy value that is not a string raises AttributeError: the
\* snippet always, the name when the snippet strategies found nothing
ResolveOneRaises(c, full_lower) ==
  \/ ~IsStr(GetOrEmpty(c, "caller_intro_snippet"))
  \/ LET snippet == strip(lower(GetOrEmpty(c, "caller_intro_snippet").s))
     IN  /\ snippet # <<>>
         /\ find(full_lower, snippet) = -1
         /\ find(full_lower, join(<<" ">>, Slice(split(snippet), 0, SixWords))) = -1
         /\ ~IsStr(GetOrEmpty(c, "caller_name"))

\* the body of the loop for one record that does not raise
ResolveOne(c, segments) ==
  LET full_lower == lower(FullText(segments))
      snippet    == strip(lower(GetOrEmpty(c, "caller_intro_snippet").s))
  IN  [c EXCEPT !["call_start_time"] =
         IF snippet = <<>> THEN Null ELSE LabelAt(segments, SnippetIdx(c, full_lower))]

\* _resolve_timestamps(calls, ts_path), ts being the timestamps file: nothing
\* happens when it cannot be loaded; the records up to the first that raises
\* get call_start_time; [ok, calls]
_resolve_timestamps(recs, ts) ==
  LET full_lower == lower(FullText(ts.segments))
      bad  == {i \in 1..Len(recs) : ResolveOneRaises(recs[i], full_lower)}
      stop == IF bad = {} THEN Len(recs) + 1 ELSE CHOOSE i \in bad : \A j \in bad : i <= j
  IN  IF ~ts.readable THEN [ok |-> TRUE, calls |-> recs]
      ELSE [ok |-> bad = {},
            calls |-> [i \in 1..Len(recs) |->
                         IF i < stop THEN ResolveOne(recs[i], ts.segments) ELSE recs[i]]]

\* the inputs: a timestamps file of three segments, one of no segment, one
\* that json.load cannot read; the records made of the values below
Seg(t, hms) == [text |-> t, start_hms |-> hms]
TimestampFiles ==
  {[readable |-> TRUE,
    segments |-> <<Seg(<<"H","e","l","l","o"," ","t","h","e","r","e",","," ","T","H","I","S"," ","i","s"," ","B","o","b"," ","f","r","o","m"," ","O","h","i","o",".">>, <<"0",":","0","0",":","0","0">>),
                   Seg(<<"I"," ","s","a","w"," ","a"," ","t","h","i","n","g"," ","b","y"," ","t","h","e"," ","l","a","k","e"," ","o","n","e"," ","n","i","g","h","t">>, <<"0",":","0","0",":","0","7">>),
                   Seg(<<"a","n","d"," ","y","o","u"," ","c","a","n"," ","c","a","l","l"," ","m","e"," ","Z","e","d">>, <<"0",":","0","1",":","1","2">>)>>],
   [readable |-> TRUE, segments |-> <<>>],
   [readable |-> FALSE, segments |-> <<>>]}

ResolveSnippets ==
  {Null, Str(<<>>), Num(5), Str(<<" ","S","a","w"," ","a"," ","T","h","i","n","g"," ">>),
   Str(<<"I"," ","s","a","w"," ","a"," ","t","h","i","n","g"," "," ","b","y"," ","t","h","e"," ","l","a","k","e"," ","a","t"," ","n","i","g","h","t">>), Str(<<"n","o","t","h","i","n","g"," ","l","i","k","e"," ","i","t">>),
   Str(<<"O","h","i","o","."," ","I"," ","s","a","w">>)}
ResolveNames == {Null, Str(<<"B","o","b">>), Str(<<"A","n","o","n","y","m","o","u","s">>), Str(<<"Z","e","d">>), Str(<<"B","o","b"," ">>), Num(7)}

ResolveRecord(sn, nm) ==
  [k \in ResolveFields |->
     CASE k = "caller_intro_snippet" -> sn
       [] k = "caller_name"          -> nm
       [] OTHER                      -> Missing]

ResolveRecords == {ResolveRecord(x[1], x[2]) : x \in ResolveSnippets \X ResolveNames}

\* the lists: a record alone, or before or after a record with a snippet
\* that is found
MaxResolveLen == 2
FoundRecord == ResolveRecord(Str(<<"t","h","i","s"," ","i","s"," ","b","o","b">>), Null)
ResolveLists ==
  UNION {{<<r>> \o [i \in 1..(n - 1) |-> FoundRecord],
          [i \in 1..(n - 1) |-> FoundRecord] \o <<r>>} :
           r \in ResolveRecords, n \in 1..MaxResolveLen}

InitResolve ==
  /\ resolve_ts \in TimestampFiles
  /\ resolve_in \in ResolveLists
  /\ resolve_calls = resolve_in
  /\ resolve_pc = "call"

\* one call of _resolve_timestamps; the records are mutated in place
Resolve ==
  /\ resolve_pc = "call"
  /\ LET r == _resolve_timestamps(resolve_calls, resolve_ts)
     IN  /\ resolve_calls' = r.calls
         /\ resolve_pc' = IF r.ok THEN "done" ELSE "raised"
  /\ UNCHANGED <<resolve_ts, resolve_in>>
  /\ UNCHANGED <<sanVars, chunkVars, parseVars, verifyVars, reparseVars, fetchVars>>

IdleResolve ==
  /\ resolve_ts = [readable |-> FALSE, segments |-> <<>>]
  /\ resolve_in = <<>> /\ resolve_calls = <<>>
  /\ resolve_pc = "idle"

-----------------------------------------------------------------------------
(***************************************************************************)
(* fetch_transcripts: for each session the audio is downloaded and         *)
(* transcribed, and <eid>.txt and <eid>_timestamps.json are written.  The  *)
(* two files are the transcript and timestamps of the parse model; here a  *)
(* transcript is also "empty" (opened for writing, nothing written yet) or *)
(* "short" (a transcription of at most 500 bytes).                         *)
(***************************************************************************)
MaxFetchRuns == 2

\* what fetch_transcripts leaves alone
FetchFrame ==
  /\ UNCHANGED <<credential, nchunks, parsed, tmp>>
  /\ UNCHANGED <<pc, run, ghostVars>>
  /\ UNCHANGED parseMemory

\* continue: the loop goes to the next episode
NextEpisode ==
  /\ fetch_ep' = fetch_ep + 1
  /\ fetch_pc' = "f_episode"

\* transcript_path.exists() and transcript_path.stat().st_size > 500
AlreadyTranscribed(s) == transcript[s] = "text"

InitFetch ==
  /\ audio_url \in [Sessions -> BOOLEAN]
  /\ audio = [s \in Sessions |-> "absent"]
  /\ audio_tmp = [s \in Sessions |-> "absent"]
  /\ tmp_txt = [s \in Sessions |-> "absent"]
  /\ tmp_ts = [s \in Sessions |-> "absent"]
  /\ fetch_pc = "f_start" /\ fetch_ep = 0 /\ fetch_run = 1

\* import whisper, which raises when it is not installed, and load_model
FetchStart ==
  /\ fetch_pc = "f_start"
  /\ \E installed \in BOOLEAN :
        IF installed THEN fetch_pc' = "f_episode" /\ fetch_ep' = 1
        ELSE fetch_pc' = "f_raised" /\ fetch_ep' = fetch_ep
  /\ UNCHANGED <<fetch_run, audio_url, audio, audio_tmp, tmp_txt, tmp_ts>>
  /\ UNCHANGED <<transcript, timestamps>>
  /\ FetchFrame
  /\ UNCHANGED <<sanVars, chunkVars, verifyVars, reparseVars, resolveVars>>

\* the transcript is there and larger than 500 bytes: continue
FetchSkip ==
  /\ fetch_pc = "f_episode" /\ fetch_ep \in Sessions
  /\ AlreadyTranscribed(fetch_ep)
  /\ NextEpisode
  /\ UNCHANGED <<fetch_run, audio_url, audio, audio_tmp, tmp_txt, tmp_ts>>
  /\ UNCHANGED <<transcript, timestamps>>
  /\ FetchFrame
  /\ UNCHANGED <<sanVars, chunkVars, verifyVars, reparseVars, resolveVars>>

\* no audio URL: open(transcript_path, "w") creates or truncates the file
FetchNoAudio ==
  /\ fetch_pc = "f_episode" /\ fetch_ep \in Sessions
  /\ ~AlreadyTranscribed(fetch_ep)
  /\ ~audio_url[fetch_ep]
  /\ transcript' = [transcript EXCEPT ![fetch_ep] = "empty"]
  /\ fetch_pc' = "f_sentinel"
  /\ UNCHANGED <<fetch_ep, fetch_run, audio_url, audio, audio_tmp, tmp_txt, tmp_ts>>
  /\ UNCHANGED timestamps
  /\ FetchFrame
  /\ UNCHANGED <<sanVars, chunkVars, verifyVars, reparseVars, resolveVars>>

\* f.write("TRANSCRIPT_UNAVAILABLE\n" + name), then continue
FetchSentinel ==
  /\ fetch_pc = "f_sentinel"
  /\ transcript' = [transcript EXCEPT ![fetch_ep] = "unavailable"]
  /\ NextEpisode
  /\ UNCHANGED <<fetch_run, audio_url, audio, audio_tmp, tmp_txt, tmp_ts>>
  /\ UNCHANGED timestamps
  /\ FetchFrame
  /\ UNCHANGED <<sanVars, chunkVars, verifyVars, reparseVars, resolveVars>>

\* the audio: already there, or requests.get, which raises (continue) or
\* answers, and then <eid>.mp3.tmp is opened
FetchAudio ==
  /\ fetch_pc = "f_episode" /\ fetch_ep \in Sessions
  /\ ~AlreadyTranscribed(fetch_ep)
  /\ audio_url[fetch_ep]
  /\ IF audio[fetch_ep] = "full"
     THEN /\ fetch_pc' = "f_transcribe"
          /\ UNCHANGED <<fetch_ep, audio_tmp>>
     ELSE \E answered \in BOOLEAN :
            IF answered
            THEN /\ audio_tmp' = [audio_tmp EXCEPT ![fetch_ep] = "partial"]
                 /\ fetch_pc' = "f_download"
                 /\ fetch_ep' = fetch_ep
            ELSE /\ audio_tmp' = [audio_tmp EXCEPT ![fetch_ep] = "absent"]
                 /\ NextEpisode
  /\ UNCHANGED <<fetch_run, audio_url, audio, tmp_txt, tmp_ts>>
  /\ UNCHANGED <<transcript, timestamps>>
  /\ FetchFrame
  /\ UNCHANGED <<sanVars, chunkVars, verifyVars, reparseVars, resolveVars>>

\* the chunks are written and tmp_path.replace(audio_path), or the stream
\* raises: tmp_path.unlink(missing_ok=True) and continue
FetchDownload ==
  /\ fetch_pc = "f_download"
  /\ \E complete \in BOOLEAN :
        IF complete
        THEN /\ audio' = [audio EXCEPT ![fetch_ep] = "full"]
             /\ fetch_pc' = "f_transcribe"
             /\ fetch_ep' = fetch_ep
        ELSE /\ audio' = audio
             /\ NextEpisode
  /\ audio_tmp' = [audio_tmp EXCEPT ![fetch_ep] = "absent"]
  /\ UNCHANGED <<fetch_run, audio_url, tmp_txt, tmp_ts>>
  /\ UNCHANGED <<transcript, timestamps>>
  /\ FetchFrame
  /\ UNCHANGED <<sanVars, chunkVars, verifyVars, reparseVars, resolveVars>>

\* model.transcribe(...) returned and open(tmp_txt, "w") created <eid>.txt.tmp
FetchTranscribe ==
  /\ fetch_pc = "f_transcribe"
  /\ tmp_txt' = [tmp_txt EXCEPT ![fetch_ep] = "empty"]
  /\ fetch_pc' = "f_txt"
  /\ UNCHANGED <<fetch_ep, fetch_run, audio_url, audio, audio_tmp, tmp_ts>>
  /\ UNCHANGED <<transcript, timestamps>>
  /\ FetchFrame
  /\ UNCHANGED <<sanVars, chunkVars, verifyVars, reparseVars, resolveVars>>

\* f.write(result["text"]): a text of more than 500 bytes or a shorter one
FetchWriteTxt ==
  /\ fetch_pc = "f_txt"
  /\ \E size \in {"text", "short"} : tmp_txt' = [tmp_txt EXCEPT ![fetch_ep] = size]
  /\ fetch_pc' = "f_segments"
  /\ UNCHANGED <<fetch_ep, fetch_run, audio_url, audio, audio_tmp, tmp_ts>>
  /\ UNCHANGED <<transcript, timestamps>>
  /\ FetchFrame
  /\ UNCHANGED <<sanVars, chunkVars, verifyVars, reparseVars, resolveVars>>

\* the segments are built and open(tmp_ts, "w") created
\* <eid>_timestamps.json.tmp
FetchOpenTs ==
  /\ fetch_pc = "f_segments"
  /\ tmp_ts' = [tmp_ts EXCEPT ![fetch_ep] = "empty"]
  /\ fetch_pc' = "f_ts"
  /\ UNCHANGED <<fetch_ep, fetch_run, audio_url, audio, audio_tmp, tmp_txt>>
  /\ UNCHANGED <<transcript, timestamps>>
  /\ FetchFrame
  /\ UNCHANGED <<sanVars, chunkVars, verifyVars, reparseVars, resolveVars>>

\* json.dump(segments, f, indent=2)
FetchWriteTs ==
  /\ fetch_pc = "f_ts"
  /\ tmp_ts' = [tmp_ts EXCEPT ![fetch_ep] = "written"]
  /\ fetch_pc' = "f_commit_txt"
  /\ UNCHANGED <<fetch_ep, fetch_run, audio_url, audio, audio_tmp, tmp_txt>>
  /\ UNCHANGED <<transcript, timestamps>>
  /\ FetchFrame
  /\ UNCHANGED <<sanVars, chunkVars, verifyVars, reparseVars, resolveVars>>

\* tmp_txt.replace(transcript_path)
FetchCommitTxt ==
  /\ fetch_pc = "f_commit_txt"
  /\ transcript' = [transcript EXCEPT ![fetch_ep] = tmp_txt[fetch_ep]]
  /\ tmp_txt' = [tmp_txt EXCEPT ![fetch_ep] = "absent"]
  /\ fetch_pc' = "f_commit_ts"
  /\ UNCHANGED <<fetch_ep, fetch_run, audio_url, audio, audio_tmp, tmp_ts>>
  /\ UNCHANGED timestamps
  /\ FetchFrame
  /\ UNCHANGED <<sanVars, chunkVars, verifyVars, reparseVars, resolveVars>>

\* tmp_ts.replace(timestamps_path), the end of the try block
FetchCommitTs ==
  /\ fetch_pc = "f_commit_ts"
  /\ timestamps' = [timestamps EXCEPT ![fetch_ep] = TRUE]
  /\ tmp_ts' = [tmp_ts EXCEPT ![fetch_ep] = "absent"]
  /\ NextEpisode
  /\ UNCHANGED <<fetch_run, audio_url, audio, audio_tmp, tmp_txt>>
  /\ UNCHANGED transcript
  /\ FetchFrame
  /\ UNCHANGED <<sanVars, chunkVars, verifyVars, reparseVars, resolveVars>>

\* the statements of the try block
InTry == {"f_transcribe", "f_txt", "f_segments", "f_ts", "f_commit_txt", "f_commit_ts"}

\* except Exception: a statement of the try block raised (the transcription,
\* a write, a rename); both temporary files are unlinked, the loop goes on
FetchException ==
  /\ fetch_pc \in InTry
  /\ tmp_txt' = [tmp_txt EXCEPT ![fetch_ep] = "absent"]
  /\ tmp_ts' = [tmp_ts EXCEPT ![fetch_ep] = "absent"]
  /\ NextEpisode
  /\ UNCHANGED <<fetch_run, audio_url, audio, audio_tmp>>
  /\ UNCHANGED <<transcript, timestamps>>
  /\ FetchFrame
  /\ UNCHANGED <<sanVars, chunkVars, verifyVars, reparseVars, resolveVars>>

\* the loop is over
FetchReturn ==
  /\ fetch_pc = "f_episode" /\ fetch_ep > NumSessions
  /\ fetch_pc' = "f_done"
  /\ UNCHANGED <<fetch_ep, fetch_run, audio_url, audio, audio_tmp, tmp_txt, tmp_ts>>
  /\ UNCHANGED <<transcript, timestamps>>
  /\ FetchFrame
  /\ UNCHANGED <<sanVars, chunkVars, verifyVars, reparseVars, resolveVars>>

\* the process is killed; the files stay as they are
FetchCrash ==
  /\ fetch_pc \in InTry \cup {"f_episode", "f_sentinel", "f_download"}
  /\ fetch_pc' = "f_crashed"
  /\ UNCHANGED <<fetch_ep, fetch_run, audio_url, audio, audio_tmp, tmp_txt, tmp_ts>>
  /\ UNCHANGED <<transcript, timestamps>>
  /\ FetchFrame
  /\ UNCHANGED <<sanVars, chunkVars, verifyVars, reparseVars, resolveVars>>

\* the operator runs the stage again
FetchRestart ==
  /\ fetch_pc \in {"f_done", "f_crashed", "f_raised"}
  /\ fetch_run < MaxFetchRuns
  /\ fetch_run' = fetch_run + 1
  /\ fetch_pc' = "f_start" /\ fetch_ep' = 0
  /\ UNCHANGED <<audio_url, audio, audio_tmp, tmp_txt, tmp_ts>>
  /\ UNCHANGED <<transcript, timestamps>>
  /\ FetchFrame
  /\ UNCHANGED <<sanVars, chunkVars, verifyVars, reparseVars, resolveVars>>

NextFetch ==
  \/ FetchStart \/ FetchSkip \/ FetchNoAudio \/ FetchSentinel \/ FetchAudio
  \/ FetchDownload \/ FetchTranscribe \/ FetchWriteTxt \/ FetchOpenTs
  \/ FetchWriteTs \/ FetchCommitTxt \/ FetchCommitTs \/ FetchException
  \/ FetchReturn \/ FetchCrash \/ FetchRestart

IdleFetch ==
  /\ fetch_pc = "idle" /\ fetch_ep = 0 /\ fetch_run = 0
  /\ audio_url = <<>> /\ audio = <<>> /\ audio_tmp = <<>>
  /\ tmp_txt = <<>> /\ tmp_ts = <<>>

InitSanitizeOnly == InitSanitize /\ IdleChunk /\ IdleParse /\ IdleVerify /\ IdleReparse /\ IdleResolve /\ IdleFetch
SpecSanitize == InitSanitizeOnly /\ [][Sanitize]_vars

InitChunkOnly == IdleSanitize /\ InitChunk /\ IdleParse /\ IdleVerify /\ IdleReparse /\ IdleResolve /\ IdleFetch
NextChunk == ChunkCall \/ ChunkLoop \/ ChunkReturn
SpecChunk == InitChunkOnly /\ [][NextChunk]_vars

Init == IdleSanitize /\ IdleChunk /\ InitParse /\ IdleVerify /\ IdleReparse /\ IdleResolve /\ IdleFetch
Next == NextParse
Spec == Init /\ [][Next]_vars

InitVerifyOnly == IdleSanitize /\ IdleChunk /\ IdleParse /\ InitVerify /\ IdleReparse /\ IdleResolve /\ IdleFetch
SpecVerify == InitVerifyOnly /\ [][Verify]_vars

InitResolveOnly ==
  /\ IdleSanitize /\ IdleChunk /\ IdleParse /\ IdleVerify /\ IdleReparse
  /\ InitResolve /\ IdleFetch
SpecResolve == InitResolveOnly /\ [][Resolve]_vars

InitFetchOnly ==
  /\ IdleSanitize /\ IdleChunk /\ IdleParse /\ IdleVerify /\ IdleReparse
  /\ IdleResolve /\ InitFetch
SpecFetch == InitFetchOnly /\ [][NextFetch]_vars

\* both operations, on sessions without timestamp files, the first one with a
\* transcript and the others with one chunk at most; the kill of
\* parse_transcripts is left to Spec
InitReparse ==
  /\ IdleSanitize /\ IdleChunk /\ InitParse /\ IdleVerify /\ IdleReparse
  /\ IdleResolve /\ IdleFetch
  /\ timestamps = [s \in Sessions |-> FALSE]
  /\ transcript[1] = "text"
  /\ \A s \in Sessions \ {1} : nchunks[s] = 1
NextBoth ==
  \/ ParseStart \/ SessionCached \/ SessionSkip \/ SessionBegin
  \/ ChunkAttempt \/ Backoff \/ Cooldown \/ SessionFinish
  \/ OpenTmp \/ DumpTmp \/ ReplaceParsed \/ ParseReturn \/ Restart
  \/ NextReparse
SpecReparse == InitReparse /\ [][NextBoth]_vars

-----------------------------------------------------------------------------
(***************************************************************************)
(* Properties of _sanitize_call (specification SpecSanitize)               *)
(***************************************************************************)
Returned == san_pc \in {"once", "twice"}

\* C1: on every record on which _sanitize_call returns, call_type is a member
\* of VALID_ENTITY_LABELS: an exact member is kept, a case-insensitive match
\* becomes the canonical-cased label, anything else (missing, null, empty,
\* an arbitrary string) becomes "Other".
C1_CallTypeInVocabulary ==
  /\ Returned => call["call_type"].t = "str" /\ call["call_type"].s \in VALID_ENTITY_LABELS
  /\ san_pc = "once" =>
       LET v       == call_in["call_type"]
           matches == IF v.t = "str"
                      THEN {l \in VALID_ENTITY_LABELS : lower(l) = lower(v.s)} ELSE {}
       IN  call["call_type"] =
             IF v.t = "str" /\ v.s \in VALID_ENTITY_LABELS THEN v
             ELSE IF Cardinality(matches) = 1 THEN Str(CHOOSE l \in matches : TRUE)
             ELSE Str(<<"O","t","h","e","r">>)

C1_Witness ==
  /\ san_pc = "once"
  /\ call_in["call_type"] = Str(<<"d","o","g","m","a","n">>)
  /\ call["call_type"] = Str(<<"D","o","g","m","a","n">>)

ValidClock(x) ==
  /\ Len(x) = 5 /\ x[3] = ":"
  /\ \A i \in {1, 2, 4, 5} : x[i] \in Digits
  /\ int(SubSeq(x, 1, 2)) \in 0..23
  /\ int(SubSeq(x, 4, 5)) \in 0..59

\* C2: after _sanitize_call, time_of_event is null or a string HH:MM with the
\* hour in 0..23 and the minute in 0..59.
C2_TimeIsNullOrClock ==
  Returned =>
    LET tm == get(call, "time_of_event")
    IN  tm.t = "null" \/ (tm.t = "str" /\ ValidClock(tm.s))

IsoShape(x) ==
  /\ Len(x) = 10 /\ x[5] = "-" /\ x[8] = "-"
  /\ \A i \in {1, 2, 3, 4, 6, 7, 9, 10} : x[i] \in Digits

\* C3: after _sanitize_call, date_of_event is null or exactly a string of the
\* shape YYYY-MM-DD, with nothing around it.
C3_DateIsNullOrIso ==
  Returned =>
    LET d == get(call, "date_of_event")
    IN  d.t = "null" \/ (d.t = "str" /\ IsoShape(d.s))

\* C4: time_of_event "around 3 in the afternoon" is sanitized to "15:00".
C4_AfternoonIs1500 ==
  (san_pc = "once" /\ call_in["time_of_event"] = Str(<<"a","r","o","u","n","d"," ","3"," ","i","n"," ","t","h","e"," ","a","f","t","e","r","n","o","o","n">>))
     => call["time_of_event"] = Str(<<"1","5",":","0","0">>)

\* C5: _sanitize_call never raises, whatever JSON values the fields hold.
C5_NeverRaises == san_pc \notin {"raised", "raised_again"}

\* C8: _sanitize_call is idempotent: applied to its own result it returns, and
\* returns the same value in every field.
C8_Idempotent ==
  /\ san_pc # "raised_again"
  /\ san_pc = "twice" => \A f \in Fields : call[f] = call_once[f]

-----------------------------------------------------------------------------
(***************************************************************************)
(* Properties of _chunk_transcript (specification SpecChunk)               *)
(***************************************************************************)
RECURSIVE Joined(_)
Joined(cs) == IF cs = <<>> THEN <<>> ELSE Head(cs) \o Joined(Tail(cs))

\* C6: the chunks _chunk_transcript returns, concatenated in order, are the
\* input text; while the loop runs, the chunks cut so far followed by the
\* remaining text are the input text.
C6_ChunksJoinToText ==
  /\ chunk_pc = "loop" => Joined(chunks) \o remaining = text
  /\ chunk_pc = "done" => Joined(chunks) = text

C6_Witness ==
  /\ chunk_pc = "done"
  /\ Len(text) > max_chars
  /\ Len(chunks) >= 3
  /\ \E i \in 1..(Len(chunks) - 1) : Len(chunks[i]) < max_chars
  /\ Joined(chunks) = text

\* C7: no chunk _chunk_transcript cuts or returns is longer than max_chars.
C7_ChunksWithinBudget ==
  \A i \in 1..Len(chunks) : Len(chunks[i]) <= max_chars

C7_Witness ==
  /\ chunk_pc = "done"
  /\ Len(chunks) >= 3
  /\ \E i, j \in 1..(Len(chunks) - 1) :
        /\ Len(chunks[i]) = max_chars
        /\ Len(chunks[j]) < max_chars
        /\ Best(Joined(SubSeq(chunks, j, Len(chunks))), max_chars) = Len(chunks[j])

-----------------------------------------------------------------------------
(***************************************************************************)
(* Properties of parse_transcripts (specification Spec)                    *)
(***************************************************************************)
\* C9: in every step, a crash included, each session's checkpoint file is
\* absent or holds the complete record list of the session, and a checkpoint
\* file that exists is left as it is.
C9_CheckpointsAtomic ==
  [][\A s \in Sessions :
       /\ parsed'[s] = Absent \/ parsed'[s] = FileOf(complete_list'[s])
       /\ parsed[s].exists => parsed'[s] = parsed[s]]_vars

C9_Witness ==
  /\ pc = "crashed"
  /\ \E s, u \in Sessions :
        /\ s # u
        /\ parsed[u] = FileOf(complete_list[u]) /\ Len(parsed[u].data) >= 1
        /\ parsed[s] = Absent
        /\ tmp[s].exists /\ ~tmp[s].complete
        /\ Len(tmp[s].data) >= 1 /\ Len(tmp[s].data) < Len(complete_list[s])

\* the records of session s's checkpoint are in all_calls, in order
Loaded(s) ==
  LET d == parsed[s].data
  IN  \E k \in 0..Len(all_calls) :
        /\ k + Len(d) <= Len(all_calls)
        /\ \A i \in 1..Len(d) : /\ all_calls[k + i].src = d[i].src
                                /\ all_calls[k + i].call = d[i].call
                                /\ all_calls[k + i].instance = k + i

\* C10: for a session whose checkpoint file exists when the run reaches it,
\* the run issues no backend call and does not write the checkpoint; once the
\* run is past the session, its cached records are in the result list.
C10_CheckpointedNotReprocessed ==
  \A s \in checkpointed :
    /\ \A c \in 1..MaxChunks : <<s, c>> \notin called
    /\ s \notin written
    /\ ep > s => Loaded(s)

C10_Witness ==
  /\ run > 1 /\ pc = "done"
  /\ \E s \in checkpointed, u \in Sessions \ checkpointed :
        /\ Len(parsed[s].data) >= 1 /\ Loaded(s)
        /\ u \in written /\ <<u, 1>> \in called

\* C11: a chunk whose latest attempt failed (the backend call, the decoding or
\* the handling of the response) is sent to the backend again by every later
\* run that gets past its session.
C11_SkippedChunkRetried ==
  \A x \in skipped : ep > x[1] => <<x[1], x[2]>> \in called

\* C12: a response that cannot be decoded adds no record and leaves the
\* session and the chunk index as they are; the iteration then ends with the
\* loop at the next chunk, and a chunk the loop is at is sent to the backend.
C12_DecodeFailureSkipsChunkOnly ==
  [][/\ (pc = "chunk" /\ outcome' = "bad_json") =>
          /\ pc' = "cooldown" /\ episode_calls' = episode_calls
          /\ ep' = ep /\ ci' = ci
     /\ (pc = "cooldown" /\ outcome = "bad_json") =>
          \/ pc' = "crashed"
          \/ pc' = "chunk" /\ ep' = ep /\ ci' = ci + 1 /\ episode_calls' = episode_calls
     /\ (pc = "chunk" /\ ci <= nchunks[ep]) =>
          pc' = "crashed" \/ <<ep, ci>> \in called']_vars

C12_Witness ==
  /\ run = 1 /\ pc = "done"
  /\ <<1, 1, "bad_json">> \in skipped
  /\ <<1, 2>> \in called /\ <<2, 1>> \in called
  /\ 1 \in written /\ Len(parsed[1].data) >= 1
  /\ \A i \in 1..Len(parsed[1].data) : parsed[1].data[i].src[2] = 2

\* C17: date_of_event "the 90s" is sanitized to "1990-01-01", and "07" to a
\* date of the 2000s (a string of the shape 20YY-MM-DD).
C17_DecadeDates ==
  san_pc = "once" =>
    /\ call_in["date_of_event"] = Str(<<"t","h","e"," ","9","0","s">>)
          => call["date_of_event"] = Str(<<"1","9","9","0","-","0","1","-","0","1">>)
    /\ call_in["date_of_event"] = Str(<<"0","7">>)
          => /\ call["date_of_event"].t = "str"
             /\ IsoShape(call["date_of_event"].s)
             /\ SubSeq(call["date_of_event"].s, 1, 2) = <<"2","0">>

\* the records _verify_calls went through: those holding the key verified
Annotated == {i \in 1..Len(verify_calls) : verify_calls[i]["verified"].t # "missing"}

\* C13: _verify_calls changes no field of any record other than verified and
\* verification_evidence; every other field, and the number and order of the
\* records, is the same before and after.
C13_VerifyFrame ==
  verify_pc \in {"done", "raised"} =>
    /\ Len(verify_calls) = Len(verify_in)
    /\ \A i \in 1..Len(verify_calls) :
         \A k \in VerifyFields \ {"verified", "verification_evidence"} :
            verify_calls[i][k] = verify_in[i][k]

\* a two-record call returned, the first record's snippet having blanks
\* around it and both records annotated
C13_Witness ==
  /\ verify_pc = "done" /\ Len(verify_calls) = 2 /\ Annotated = {1, 2}
  /\ IsStr(verify_in[1]["caller_intro_snippet"])
  /\ strip(verify_in[1]["caller_intro_snippet"].s) # verify_in[1]["caller_intro_snippet"].s
  /\ verify_calls[1]["verified"] = Bool(TRUE)
  /\ verify_calls[2] # verify_in[2]

\* some check of the record as it was given fired
AnySignal(c, t_lower) ==
  \/ SnippetMatch(c, t_lower) \/ SnippetPartial(c, t_lower) \/ NameFound(c, t_lower)
  \/ StateFound(c, t_lower) \/ DescWordsMatch(c, t_lower)

SharedWords(c, t_lower) ==
  LET desc == lower(strip(GetOrEmpty(c, "description").s))
  IN  {w \in {SubSeq(desc, r[1], r[2]) : r \in DescWords(desc)} : Contains(t_lower, w)}

\* C15: for every record whose opening snippet is not found anywhere in the
\* transcript, whose name field is null, and whose summary shares fewer than
\* three four-letter-or-longer words with the transcript, _verify_calls sets
\* verified to false and verification_evidence to "none".
C15_NoEvidenceScenario ==
  \A i \in Annotated :
     LET c == verify_in[i]
         t_lower == lower(verify_transcript)
     IN  (/\ ~SnippetMatch(c, t_lower) /\ ~SnippetPartial(c, t_lower)
          /\ c["caller_name"] = Null
          /\ Cardinality(SharedWords(c, t_lower)) < MinWordMatches)
         => /\ verify_calls[i]["verified"] = Bool(FALSE)
            /\ verify_calls[i]["verification_evidence"] = Str(None)

\* C16: the summary signal (desc_words_match) fires if and only if at least
\* three distinct words of four or more letters taken from the record's
\* description appear in the transcript; repeating one matching word in the
\* description does not count more than once.
C16_DistinctSummaryWords ==
  \A i \in Annotated :
     Contains(verify_calls[i]["verification_evidence"].s, <<"d","e","s","c","_","w","o","r","d","s","_","m","a","t","c","h">>)
       <=> Cardinality(SharedWords(verify_in[i], lower(verify_transcript))) >= MinWordMatches

\* C18: when the credential of the selected provider is missing,
\* parse_transcripts and reparse_regions raise a configuration error before any
\* backend call is issued, before any chunk is processed, and before any
\* checkpoint file is written: the first step of a run without the key ends
\* it with no call recorded and no file touched, and no run is ever past its
\* first step without the key.
C18_MissingCredentialFailsFirst ==
  [][/\ (~credential /\ pc \in {"start", "r_start"}) =>
          /\ pc' \in {"config_error", "crashed"}
          /\ parsed' = parsed /\ tmp' = tmp
          /\ called' = called /\ reparse_called' = reparse_called
          /\ episode_calls' = episode_calls /\ pf_calls' = pf_calls
     /\ (pc \in {"session", "chunk", "backoff", "cooldown", "open", "dump", "replace",
                 "r_file", "r_call", "r_dump", "r_replace"}) => credential]_vars

\* reparse_regions ended in the configuration error although a checkpoint
\* file was there for it: the one run of parse_transcripts wrote it, so the
\* key was removed after it
C18_Witness ==
  /\ pc = "config_error" /\ ~credential
  /\ run = 1 /\ reparse_run = 1
  /\ parsed[1].exists /\ Len(parsed[1].data) >= 1 /\ transcript[1] = "text"
  /\ reparse_called = {}

\* two records that differ in the location fields and the marker at most
SameButLocation(old, new) ==
  /\ new.src = old.src /\ new.stages = old.stages /\ new.instance = old.instance
  /\ DOMAIN new.call \ {Marker} = DOMAIN old.call \ {Marker}
  /\ \A k \in DOMAIN old.call \ (LocFields \cup {Marker}) : new.call[k] = old.call[k]

\* C19: reparse_regions changes, in every persisted record of every session,
\* only the fields country, state_or_region, city and the marker
\* _regions_reparsed; every other field, and the number and order of the
\* records in each checkpoint file, is unchanged (by every step of it).
C19_ReparseFrame ==
  [][Reparsing =>
       \A s \in Sessions :
          /\ parsed'[s].exists = parsed[s].exists
          /\ parsed'[s].complete = parsed[s].complete
          /\ Len(parsed'[s].data) = Len(parsed[s].data)
          /\ \A i \in 1..Len(parsed[s].data) :
                SameButLocation(parsed[s].data[i], parsed'[s].data[i])]_vars

\* a checkpoint of two records was replaced by reparse_regions, with a new
\* state in its first record
C19_Witness ==
  /\ pc = "done" /\ reparse_run >= 1
  /\ Len(parsed[1].data) = 2 /\ Len(complete_list[1]) = 2
  /\ \A i \in 1..2 : Marked(parsed[1].data[i].call)
  /\ parsed[1].data[1].call["state_or_region"] = Str(<<"T","e","x","a","s">>)
  /\ complete_list[1][1].call["state_or_region"] = Str(<<"C","a","l","i","f","o","r","n","i","a">>)
  /\ parsed[1].data[2].call["state_or_region"] = Null

\* C20: once a session's checkpoint carries the region-reparse marker, every
\* later run of reparse_regions issues no backend call for that session and
\* leaves its checkpoint file unchanged, and no operation of reparse_regions or
\* parse_transcripts ever clears the marker; the marker does not affect
\* whether parse_transcripts treats the session as checkpointed.
C20_MarkerSticks ==
  [][\A s \in Sessions :
        CarriesMarker(parsed[s]) =>
          /\ parsed'[s] = parsed[s]
          /\ \A x \in reparse_called' \ reparse_called : x[1] # s
          /\ \A x \in called' \ called : x[1] # s
          /\ (pc = "session" /\ ep = s) =>
                /\ pc' = "session" /\ ep' = ep + 1
                /\ all_calls' = all_calls \o Number(parsed[s].data, instance_counter)]_vars

\* the second run of reparse_regions made no call, so the marker it passed
\* dates from the first, and a run of parse_transcripts after that loaded the
\* marked checkpoint
C20_Witness ==
  /\ pc = "done" /\ run = 2 /\ reparse_run = 2
  /\ CarriesMarker(parsed[1])
  /\ reparse_called = {}
  /\ Len(all_calls) >= 1 /\ Marked(all_calls[1].call)

\* the position of stage st in the stages of record r (0: it did not run)
StageAt(r, st) ==
  IF \E i \in 1..Len(r.stages) : r.stages[i] = st
  THEN CHOOSE i \in 1..Len(r.stages) : r.stages[i] = st ELSE 0

\* C21: for every record produced by parse_transcripts the stages run in the
\* order sanitizer, verifier, timestamp resolver, checkpoint write: every
\* persisted record was sanitized first and verified, and when its timestamp
\* was resolved that happened after the verification.
C21_VerifyBeforeResolve ==
  \A s \in Sessions : \A i \in 1..Len(parsed[s].data) :
     LET r == parsed[s].data[i]
     IN  /\ StageAt(r, "sanitize") = 1
         /\ StageAt(r, "verify") > 1
         /\ StageAt(r, "resolve") > 0 => StageAt(r, "verify") < StageAt(r, "resolve")

\* the export-only path of main: the records of the checkpoint files in
\* episode order, numbered from 1
RECURSIVE CheckpointRecords(_)
CheckpointRecords(n) ==
  IF n = 0 THEN <<>>
  ELSE CheckpointRecords(n - 1) \o (IF parsed[n].exists THEN parsed[n].data ELSE <<>>)

ExportCalls == Number(CheckpointRecords(NumSessions), 0)

\* C26: the list parse_transcripts returns holds the records grouped by
\* session in episode order, the i-th record has instance = i, and the
\* export-only path of main gives the same list from the checkpoint files.
C26_InstanceNumbering ==
  pc = "done" =>
    /\ \A i \in 1..Len(all_calls) : all_calls[i].instance = i
    /\ \A i, j \in 1..Len(all_calls) : i < j => all_calls[i].src[1] <= all_calls[j].src[1]
    /\ all_calls = ExportCalls

\* a second run returned records of a session checkpointed before it and of
\* a session it processed itself, one chunk of which failed
C26_Witness ==
  /\ pc = "done" /\ run = 2
  /\ 1 \in checkpointed /\ 2 \in written
  /\ \E x \in skipped : x[1] = 2
  /\ Len(all_calls) >= 2
  /\ all_calls[1].src[1] = 1 /\ all_calls[Len(all_calls)].src[1] = 2

\* C27: the fixed cooldown sleep occurs between any two consecutive backend
\* calls, after every chunk that ended in a backend-level error (an exception
\* of the backend call or a response that cannot be decoded) the longer
\* backoff sleep occurred too before the loop goes on, and no chunk is sent
\* to the backend twice within a run.
C27_SleepsBetweenCalls ==
  [][/\ (pc = "cooldown" /\ pc' = "chunk") =>
          /\ \E i \in 1..Len(sleeps') : sleeps'[i] = "cooldown"
          /\ outcome \in {"api_error", "bad_json"} =>
                \E i \in 1..Len(sleeps') : sleeps'[i] = "backoff"
     /\ (pc = "chunk" /\ ci <= nchunks[ep]) => <<ep, ci>> \notin called]_vars

\* the starts of the matches of any marker kind in the window of rem that
\* lie strictly between half the budget and the budget
AllHits(rem, mc) ==
  UNION {WindowHits(m, Slice(rem, 0, mc + LookAhead), mc) : m \in 1..NumMarkers}

\* C22: whenever the remaining text is longer than the budget, the split
\* offset is the largest offset, strictly between 50% and 100% of the budget,
\* at which a marker of any kind starts, and the budget when there is none.
C22_SplitAtNearestMarker ==
  [][(chunk_pc = "loop" /\ Len(remaining) > max_chars) =>
        Len(chunks') = Len(chunks) + 1
        /\ Len(chunks'[Len(chunks')]) =
             (IF AllHits(remaining, max_chars) = {} THEN max_chars
              ELSE Max(AllHits(remaining, max_chars)))]_vars

\* C23: for every state_or_region that matches a key of STATE_ABBREV_TO_FULL
\* or of STATE_ALIASES (case-insensitively, after trimming), _sanitize_call
\* sets state_or_region to the table's full name and country to "USA",
\* whatever country the input carried.
C23_TableStateForcesUSA ==
  (san_pc = "once" /\ IsStr(call_in["state_or_region"])) =>
    LET s == strip(call_in["state_or_region"].s)
        full == IF HasKey(STATE_ABBREV_TO_FULL, upper(s)) THEN Lookup(STATE_ABBREV_TO_FULL, upper(s))
                ELSE Lookup(STATE_ALIASES, lower(s))
    IN  (HasKey(STATE_ABBREV_TO_FULL, upper(s)) \/ HasKey(STATE_ALIASES, lower(s))) =>
           /\ call["state_or_region"] = Str(full)
           /\ call["country"] = Str(<<"U","S","A">>)

\* C24: _sanitize_call sets date_of_event to null for every string that, after
\* trimming, is not exactly a full date, a year-month, a bare year or a decade
\* reference: a string that holds no decade token and has none of the three
\* shapes becomes null, and so do the range "1990s-2000s" and the prose
\* "sometime between the 80s and 2005".
C24_OtherDatesBecomeNull ==
  (san_pc = "once" /\ IsStr(call_in["date_of_event"])) =>
    LET d == strip(call_in["date_of_event"].s)
    IN  /\ (/\ ~IsFullDate(d) /\ ~IsYear(d) /\ ~IsYearMonth(d)
            /\ DecadeHits(d, 4) = {} /\ DecadeHits(d, 2) = {})
             => call["date_of_event"] = Null
        /\ d \in {<<"1","9","9","0","s","-","2","0","0","0","s">>, <<"s","o","m","e","t","i","m","e"," ","b","e","t","w","e","e","n"," ","t","h","e"," ","8","0","s"," ","a","n","d"," ","2","0","0","5">>}
             => call["date_of_event"] = Null

\* the offsets the strategies find, in the order in which they are tried: the
\* full snippet and its first six words when there is a snippet, then the
\* three phrases with the name when it is not empty and not "anonymous"
StrategyOffsets(c, full_lower) ==
  LET snippet == strip(lower(GetOrEmpty(c, "caller_intro_snippet").s))
      name    == lower(GetOrEmpty(c, "caller_name").s)
  IN  (IF snippet = <<>> THEN <<>>
       ELSE <<find(full_lower, snippet),
              find(full_lower, join(<<" ">>, Slice(split(snippet), 0, SixWords)))>>)
      \o (IF name = <<>> \/ name = Anonymous THEN <<>>
          ELSE [i \in 1..3 |-> find(full_lower, NamePatterns(name)[i])])

FirstMatch(offsets) ==
  IF \A i \in 1..Len(offsets) : offsets[i] = -1 THEN -1
  ELSE offsets[CHOOSE i \in 1..Len(offsets) :
                 offsets[i] # -1 /\ \A j \in 1..(i - 1) : offsets[j] = -1]

\* C25: after _resolve_timestamps with a readable timestamps file, every
\* record whose snippet and name are strings or null has the label of the
\* segment that contains the offset of the first strategy that matches (full
\* snippet, first six words, name phrases), and null exactly when no strategy
\* matches, a record without a snippet but with a name included.
C25_FirstStrategyDecides ==
  (resolve_pc = "done" /\ resolve_ts.readable) =>
    \A i \in 1..Len(resolve_calls) :
      LET c == resolve_in[i]
          m == FirstMatch(StrategyOffsets(c, lower(FullText(resolve_ts.segments))))
      IN  (IsStr(GetOrEmpty(c, "caller_intro_snippet")) /\ IsStr(GetOrEmpty(c, "caller_name")))
            => /\ resolve_calls[i]["call_start_time"] = LabelAt(resolve_ts.segments, m)
               /\ (resolve_calls[i]["call_start_time"] = Null <=> m = -1)

\* C28: a record of a checkpoint carries the marker _regions_reparsed only if
\* its own location re-extraction succeeded in some run of reparse_regions; a
\* record whose backend call or decoding failed is not marked, also when
\* other records of its session succeeded.
C28_MarkedOnlyIfRepaired ==
  \A s \in Sessions :
     (parsed[s].exists /\ parsed[s].complete) =>
        \A i \in 1..Len(parsed[s].data) :
           Marked(parsed[s].data[i].call) => <<s, i>> \in repaired

FailedAnswers == {"api_error", "bad_json", "not_dict"}

\* C29: when the backend call of reparse_regions for a record raises, or its
\* answer is not decoded into an object, the record keeps its country,
\* state_or_region and city (and everything else), and the loop goes on to
\* the next record of the session.
C29_FailedCallKeepsLocation ==
  [][(pc = "r_call" /\ call_idx <= Len(pf_calls) /\ call_idx' = call_idx + 1
        /\ reparse_answer' \in FailedAnswers)
       => /\ pf_calls' = pf_calls
          /\ pc' = "r_call" /\ pf' = pf
          /\ changed' = changed
          /\ parsed' = parsed]_vars

\* the call for the first record of a session failed, the record has the
\* state it had in the checkpoint, and the call for the second record was
\* made afterwards and patched it
C29_Witness ==
  /\ pc = "r_call" /\ pf = 1 /\ Len(pf_calls) = 2 /\ call_idx = 3
  /\ reparse_run = 1
  /\ reparse_called = {<<1, 1>>, <<1, 2>>}
  /\ repaired = {<<1, 2>>}
  /\ reparse_answer = "dict"
  /\ pf_calls[1] = parsed[1].data[1]
  /\ pf_calls[1].call["state_or_region"] = Str(<<"C","a","l","i","f","o","r","n","i","a">>)
  /\ pf_calls[2].call["state_or_region"] = Str(<<"T","e","x","a","s">>)

\* <eid>.txt holds a transcription (not the sentinel, not an empty file)
Transcribed(s) == transcript[s] \in {"text", "short"}

\* C30: the transcript and the timestamps file of a session are committed
\* together: whenever fetch_transcripts is not between the two renames of
\* that very session, also after a crash or an exception, a transcribed
\* transcript is at its destination only if the timestamps file is too, so
\* that a session skipped as already transcribed has a time index.
C30_CommittedTogether ==
  \A s \in Sessions :
     (Transcribed(s) /\ ~(fetch_pc = "f_commit_ts" /\ fetch_ep = s)) => timestamps[s]

=============================================================================
